---- MODULE Spec2Model ----
(***************************************************************************)
(* Tool-calling validation core of trade-executor-app                      *)
(* (src/test_validators.py) and its host flow (src/app_with_validation.py).*)
(*                                                                         *)
(* Text is a sequence of one-character strings, so that substring tests,   *)
(* lower-casing and the price regular expression are computed on the       *)
(* characters as the Python code computes them.  Prices are exact          *)
(* integers; None and NaN are tagged values.                               *)
(***************************************************************************)
EXTENDS Integers, Sequences, FiniteSets, TLC

VARIABLES
    calls,          \* ToolCallLogger.calls: the ledger's records
    start_times,    \* ToolCallLogger.start_times: call id -> start time
    now,            \* the wall clock read by time.time()
    results,        \* the last object validate_prediction_response returned
    snapshot,       \* what that object looked like when it was returned
    invoked,        \* collaborators called by the last validation
    request,        \* the last checker call: its arguments and how it ended
    ret,            \* what a directly called checker method returned
    source,         \* live price source: ticker -> what yf.download does
    vpc,            \* position of a validation that waits on the source
    vrow,           \* row the waiting validation is at
    vtable,         \* table of the waiting validation
    vacc,           \* results dict the waiting validation has built so far
    threads,        \* in-flight tool calls: call id -> position and locals
    logged,         \* how many times log_call has been invoked
    previous        \* the validation before the last: its request and verdict

vars == <<calls, start_times, now, results, snapshot, invoked, request, ret,
          source, vpc, vrow, vtable, vacc, threads, logged, previous>>

-----------------------------------------------------------------------------
(* Bounds *)

MaxCalls == 2       \* records the ledger may hold
MaxPieces == 2      \* fragments a response text is built from
MaxRows == 2        \* rows of a recommendation table

-----------------------------------------------------------------------------
(* Text *)

UpperChars == <<"A","B","C","D","E","F","G","H","I","J","K","L","M",
                "N","O","P","Q","R","S","T","U","V","W","X","Y","Z">>
LowerChars == <<"a","b","c","d","e","f","g","h","i","j","k","l","m",
                "n","o","p","q","r","s","t","u","v","w","x","y","z">>

LowerChar(c) ==
    IF \E i \in 1..26 : UpperChars[i] = c
    THEN LowerChars[CHOOSE i \in 1..26 : UpperChars[i] = c]
    ELSE c

\* str.lower()
RECURSIVE Lower(_)
Lower(text) ==
    IF text = <<>> THEN <<>>
    ELSE <<LowerChar(Head(text))>> \o Lower(Tail(text))

\* the Python test `sub in text`
Contains(sub, text) ==
    \E i \in 0..(Len(text) - Len(sub)) :
        \A j \in 1..Len(sub) : text[i + j] = sub[j]

Digits == {"0","1","2","3","4","5","6","7","8","9"}

\* last index of the run of characters of cs that starts at i (i-1 if none)
RECURSIVE RunEnd(_, _, _)
RunEnd(text, i, cs) ==
    IF i <= Len(text) /\ text[i] \in cs THEN RunEnd(text, i + 1, cs) ELSE i - 1

\* price_pattern = r'\$[\d,]+\.?\d*' matched at position i: index of the
\* last character of the match, 0 when there is no match at i
PriceMatchEnd(text, i) ==
    IF text[i] = "$" /\ i + 1 <= Len(text) /\ text[i + 1] \in Digits \cup {","}
    THEN LET a == RunEnd(text, i + 1, Digits \cup {","})
             b == IF a + 1 <= Len(text) /\ text[a + 1] = "." THEN a + 1 ELSE a
         IN  RunEnd(text, b + 1, Digits)
    ELSE 0

\* re.findall(price_pattern, text[i:]) : leftmost non-overlapping matches
RECURSIVE FindallFrom(_, _)
FindallFrom(text, i) ==
    IF i > Len(text) THEN <<>>
    ELSE LET e == PriceMatchEnd(text, i)
         IN  IF e = 0 THEN FindallFrom(text, i + 1)
             ELSE <<SubSeq(text, i, e)>> \o FindallFrom(text, e + 1)

Findall(text) == FindallFrom(text, 1)

-----------------------------------------------------------------------------
(* Strings the code tests for *)

outdated_indicators == <<
    <<"A","s"," ","o","f"," ","m","y"," ","l","a","s","t"," ","u","p","d","a","t","e">>,
    <<"B","a","s","e","d"," ","o","n"," ","m","y"," ","t","r","a","i","n","i","n","g"," ","d","a","t","a">>,
    <<"h","i","s","t","o","r","i","c","a","l","l","y">>,
    <<"t","y","p","i","c","a","l","l","y">>,
    <<"u","s","u","a","l","l","y"," ","a","r","o","u","n","d">>,
    <<"a","p","p","r","o","x","i","m","a","t","e","l","y">>,
    <<"l","a","s","t"," ","k","n","o","w","n">> >>

WebSearchWord == <<"w","e","b","_","s","e","a","r","c","h">>
BrowsePageWord == <<"b","r","o","w","s","e","_","p","a","g","e">>
Dollar60 == <<"$","6","0">>
BTCWord == <<"B","T","C">>

-----------------------------------------------------------------------------
(* Response texts: concatenations of at most MaxPieces fragments *)

Pieces == {
    <<"A","s"," ","o","f"," ","m","y"," ","l","a","s","t"," ","u","p","d","a","t","e",","," ">>,
    <<"B","T","C"," ","a","t"," ","$","6","0",",","0","0","0"," ">>,
    <<"E","T","H"," ","a","t"," ","$","4",",","0","0","0",".","5","0"," ">>,
    <<"v","i","a"," ","w","e","b","_","s","e","a","r","c","h"," ">>,
    <<"c","o","s","t","s"," ","$"," ","o","r"," ","$",","," ">>,
    <<"B","T","C"," ">>,
    <<"$","6","0","0"," ">>,
    <<"T","Y","P","I","C","A","L","L","Y"," ">>,
    <<"B","r","o","w","s","e","_","P","a","g","e"," ">> }

RECURSIVE TextsFrom(_, _)
TextsFrom(pieces, n) ==
    IF n = 0 THEN {<<>>}
    ELSE LET shorter == TextsFrom(pieces, n - 1)
         IN  shorter \cup {t \o p : t \in shorter, p \in pieces}

Texts == TextsFrom(Pieces, MaxPieces)

\* responses validated together with a table
ReportPieces == {
    <<"A","s"," ","o","f"," ","m","y"," ","l","a","s","t"," ","u","p","d","a","t","e",","," ">>,
    <<"B","T","C"," ","a","t"," ","$","6","0",",","0","0","0"," ">> }

ReportTexts == TextsFrom(ReportPieces, MaxPieces)

\* responses of a session
SessionTexts == {
    <<>>,
    <<"E","T","H"," ","a","t"," ","$","4",",","0","0","0",".","5","0"," ">>,
    <<"v","i","a"," ","w","e","b","_","s","e","a","r","c","h"," ">> }

AllTexts == Texts \cup SessionTexts

-----------------------------------------------------------------------------
(* Values: Python numbers, None, NaN and non-numeric text *)

Num(v) == [k |-> "num", v |-> v]
NoneVal == [k |-> "none", v |-> 0]
NaNVal == [k |-> "nan", v |-> 0]
TextVal == [k |-> "text", v |-> 0]

Abs(x) == IF x < 0 THEN 0 - x ELSE x

\* a quotient num/den of exact numbers, den # 0
Ratio(num, den) == [num |-> num, den |-> den]

\* the comparison  r <= t  of a quotient with a number
RatioLeq(r, t) ==
    IF r.den > 0 THEN r.num <= t * r.den ELSE r.num >= t * r.den

-----------------------------------------------------------------------------
(* ToolCallLogger *)

NoParams == [kind |-> "dict", has_url |-> FALSE, url |-> ""]
UrlParams(u) == [kind |-> "dict", has_url |-> TRUE, url |-> u]
Entry(u) == [kind |-> "dict", has_url |-> TRUE, url |-> u]
TitleEntry == [kind |-> "dict", has_url |-> FALSE, url |-> ""]
NoResults == [kind |-> "dict", has_results |-> FALSE, results_kind |-> "list", results |-> <<>>]
ResultList(es) == [kind |-> "dict", has_results |-> TRUE, results_kind |-> "list", results |-> es]

NoDuration == [k |-> "none", v |-> 0]

\* ToolCallLogger.__init__
EmptyCalls == <<>>
EmptyStartTimes == [c \in {} |-> 0]

\* start_call: self.start_times[call_id] = time.time()
start_call(st, call_id, t) ==
    [c \in DOMAIN st \cup {call_id} |-> IF c = call_id THEN t ELSE st[c]]

\* log_call: the record appended to self.calls
log_call_record(st, call_id, tool_name, params, response, t) ==
    [call_id |-> call_id,
     tool |-> tool_name,
     params |-> params,
     response |-> response,
     timestamp |-> t,
     duration_ms |-> IF call_id \in DOMAIN st
                     THEN Num((t - st[call_id]) * 1000)
                     ELSE NoDuration]

\* a variant of log_call that leaves the timer entry in place
log_call_timers_kept(st, call_id) == st

\* a variant of log_call that empties the timer map
log_call_timers_cleared(st, call_id) == EmptyStartTimes

\* log_call: del self.start_times[call_id]
log_call_timers(st, call_id) == [c \in DOMAIN st \ {call_id} |-> st[c]]

\* sum(c['duration_ms'] for c in self.calls if c['duration_ms'])
RECURSIVE SumDurations(_)
SumDurations(cs) ==
    IF cs = <<>> THEN 0
    ELSE (IF Head(cs).duration_ms.k = "num" /\ Head(cs).duration_ms.v # 0
          THEN Head(cs).duration_ms.v ELSE 0) + SumDurations(Tail(cs))

\* the data sources one record contributes; "raise" when the loop body fails
\* (.get on a value that is no mapping, iteration over a value that is no list)
CallDataSources(call) ==
    IF call.tool = "browse_page"
    THEN IF call.params.kind # "dict" THEN [kind |-> "raise", urls |-> {}]
         ELSE [kind |-> "ok",
               urls |-> {IF call.params.has_url THEN call.params.url ELSE ""}]
    ELSE IF call.tool = "web_search"
    THEN IF call.response.kind = "dict" /\ call.response.has_results
         THEN IF call.response.results_kind # "list"
                   \/ \E i \in DOMAIN call.response.results :
                          call.response.results[i].kind # "dict"
              THEN [kind |-> "raise", urls |-> {}]
              ELSE [kind |-> "ok",
                    urls |-> {IF call.response.results[i].has_url
                              THEN call.response.results[i].url ELSE "" :
                              i \in DOMAIN call.response.results}]
         ELSE [kind |-> "ok", urls |-> {}]
    ELSE [kind |-> "ok", urls |-> {}]

\* a variant of the report that counts the distinct call ids
get_tool_usage_report_distinct_ids(cs) ==
    IF cs = <<>>
    THEN [kind |-> "ok", total_calls |-> 0, tools_used |-> {},
          avg_response_time |-> Ratio(0, 1), data_sources |-> {},
          call_details |-> "absent"]
    ELSE IF \E i \in DOMAIN cs : CallDataSources(cs[i]).kind = "raise"
    THEN [kind |-> "raise"]
    ELSE [kind |-> "ok",
          total_calls |-> Cardinality({cs[i].call_id : i \in DOMAIN cs}),
          tools_used |-> {cs[i].tool : i \in DOMAIN cs},
          avg_response_time |-> Ratio(SumDurations(cs), Len(cs)),
          data_sources |-> UNION {CallDataSources(cs[i]).urls : i \in DOMAIN cs},
          call_details |-> "self.calls"]

\* get_tool_usage_report.  call_details is the list object self.calls itself,
\* not a copy: the report holds the reference "self.calls".
get_tool_usage_report(cs) ==
    IF cs = <<>>
    THEN [kind |-> "ok", total_calls |-> 0, tools_used |-> {},
          avg_response_time |-> Ratio(0, 1), data_sources |-> {},
          call_details |-> "absent"]
    ELSE IF \E i \in DOMAIN cs : CallDataSources(cs[i]).kind = "raise"
    THEN [kind |-> "raise"]
    ELSE [kind |-> "ok",
          total_calls |-> Len(cs),
          tools_used |-> {cs[i].tool : i \in DOMAIN cs},
          avg_response_time |-> Ratio(SumDurations(cs), Len(cs)),
          data_sources |-> UNION {CallDataSources(cs[i]).urls : i \in DOMAIN cs},
          call_details |-> "self.calls"]

-----------------------------------------------------------------------------
(* HallucinationDetector *)

OutdatedLanguage(i) ==
    [type |-> "outdated_language", severity |-> "warning",
     indicator |-> i, count |-> 0, detail |-> ""]

UncitedData(n) ==
    [type |-> "uncited_data", severity |-> "critical",
     indicator |-> 0, count |-> n, detail |-> "Found n prices but no tool calls"]

OutdatedPrice ==
    [type |-> "outdated_price", severity |-> "critical",
     indicator |-> 0, count |-> 0, detail |-> "BTC price appears outdated"]

PriceOutOfRange ==
    [type |-> "price_out_of_range", severity |-> "warning",
     indicator |-> 0, count |-> 0, detail |-> "outside expected range"]

\* a variant of the loop that looks for the indicator as it is written
RECURSIVE OutdatedLanguageFrom_as_written(_, _)
OutdatedLanguageFrom_as_written(lowered_text, i) ==
    IF i > Len(outdated_indicators) THEN <<>>
    ELSE (IF Contains(outdated_indicators[i], lowered_text)
          THEN <<OutdatedLanguage(i)>> ELSE <<>>)
         \o OutdatedLanguageFrom_as_written(lowered_text, i + 1)

\* the loop over self.outdated_indicators, from indicator i on
RECURSIVE OutdatedLanguageFrom(_, _)
OutdatedLanguageFrom(lowered_text, i) ==
    IF i > Len(outdated_indicators) THEN <<>>
    ELSE (IF Contains(Lower(outdated_indicators[i]), lowered_text)
          THEN <<OutdatedLanguage(i)>> ELSE <<>>)
         \o OutdatedLanguageFrom(lowered_text, i + 1)

\* if '$60' in response_text and 'BTC' in response_text
StaleValueCheck(response_text) ==
    IF Contains(Dollar60, response_text) /\ Contains(BTCWord, response_text)
    THEN <<OutdatedPrice>> ELSE <<>>

\* "web_search" in response_content.lower() or "browse_page" in ...
MentionsTool(text) ==
    \/ Contains(WebSearchWord, Lower(text))
    \/ Contains(BrowsePageWord, Lower(text))

\* what the code reads off a text, computed once for each text of the model
ScanText(text) ==
    [language |-> OutdatedLanguageFrom(Lower(text), 1),
     prices_found |-> Findall(text),
     stale |-> StaleValueCheck(text),
     mentions |-> MentionsTool(text)]

Scanned == [text \in AllTexts |-> ScanText(text)]

\* a variant of the uncited-data test that reports one finding per price found
UncitedCheck_per_price(prices_found, cs) ==
    IF prices_found = <<>> THEN [kind |-> "ok", issues |-> <<>>]
    ELSE LET report == get_tool_usage_report(cs)
         IN  IF report.kind = "raise" THEN [kind |-> "raise", issues |-> <<>>]
             ELSE IF report.total_calls = 0
             THEN [kind |-> "ok",
                   issues |-> [i \in 1..Len(prices_found) |-> UncitedData(1)]]
             ELSE [kind |-> "ok", issues |-> <<>>]

\* if prices_found and tool_logger.get_tool_usage_report()['total_calls'] == 0
UncitedCheck(prices_found, cs) ==
    IF prices_found = <<>> THEN [kind |-> "ok", issues |-> <<>>]
    ELSE LET report == get_tool_usage_report(cs)
         IN  IF report.kind = "raise" THEN [kind |-> "raise", issues |-> <<>>]
             ELSE IF report.total_calls = 0
             THEN [kind |-> "ok", issues |-> <<UncitedData(Len(prices_found))>>]
             ELSE [kind |-> "ok", issues |-> <<>>]

\* a variant of the detector that leaves out its last test, the one for the
\* known stale figure
check_for_hallucinations_no_stale_test(response_text, cs) ==
    LET scan == Scanned[response_text]
        uncited == UncitedCheck(scan.prices_found, cs)
    IN  IF uncited.kind = "raise" THEN [kind |-> "raise", issues |-> <<>>]
        ELSE [kind |-> "ok", issues |-> scan.language \o uncited.issues]

check_for_hallucinations(response_text, cs) ==
    LET scan == Scanned[response_text]
        uncited == UncitedCheck(scan.prices_found, cs)
    IN  IF uncited.kind = "raise" THEN [kind |-> "raise", issues |-> <<>>]
        ELSE [kind |-> "ok",
              issues |-> scan.language \o uncited.issues \o scan.stale]

-----------------------------------------------------------------------------
(* Live price source (yfinance) *)

Price(v) == [k |-> "num", v |-> v]      \* data['Close'].iloc[-1]
NaNClose == [k |-> "nan", v |-> 0]      \* a last bar with no close
NoData == [k |-> "empty", v |-> 0]      \* data.empty
NetError == [k |-> "error", v |-> 0]    \* yf.download raises
NoAnswer == [k |-> "hang", v |-> 0]     \* yf.download does not return

\* symbol.replace('/', '') + '=X' for a symbol with a slash
YfTicker(symbol) == IF symbol = "EUR/USD" THEN "EURUSD=X" ELSE symbol

\* fetch_live_price: the float returned, or "raise"
fetch_live_price(symbol, src) ==
    LET data == src[YfTicker(symbol)]
    IN  IF data.k \in {"empty", "error"}
        THEN [kind |-> "raise", value |-> NoneVal]
        ELSE [kind |-> "ok", value |-> [k |-> data.k, v |-> data.v]]

-----------------------------------------------------------------------------
(* PriceAccuracyChecker *)

DefaultTolerancePct == 1

PriceResult(valid, message, fetched, computed) ==
    [kind |-> "ok", valid |-> valid, message |-> message,
     fetched |-> fetched, computed |-> computed]

PriceRaise(error, fetched) ==
    [kind |-> "raise", valid |-> FALSE, message |-> error,
     fetched |-> fetched, computed |-> FALSE]

\* a variant of the tolerance test with a strict comparison
WithinTolerance_strict(ai_price, live_price, tolerance_pct) ==
    /\ ai_price.k = "num"
    /\ live_price.k = "num"
    /\ LET r == Ratio(Abs(ai_price.v - live_price.v) * 100, live_price.v)
       IN  RatioLeq(r, tolerance_pct) /\ r.num # tolerance_pct * r.den

\* diff_pct <= self.tolerance_pct, with diff_pct = abs(ai - live) / live * 100;
\* a NaN operand makes diff_pct NaN and the comparison false
WithinTolerance(ai_price, live_price, tolerance_pct) ==
    /\ ai_price.k = "num"
    /\ live_price.k = "num"
    /\ RatioLeq(Ratio(Abs(ai_price.v - live_price.v) * 100, live_price.v),
                tolerance_pct)

\* validate_price from `if live_price == 0` on
compare_price(ai_price, live_price, tolerance_pct, fetched) ==
    IF live_price.k = "num" /\ live_price.v = 0
    THEN PriceResult(FALSE, "Invalid live price (0)", fetched, FALSE)
    ELSE IF ai_price.k \in {"none", "text"} \/ live_price.k \in {"none", "text"}
    THEN PriceRaise("TypeError", fetched)
    ELSE IF WithinTolerance(ai_price, live_price, tolerance_pct)
    THEN PriceResult(TRUE, "Price within tolerance", fetched, TRUE)
    ELSE PriceResult(FALSE, "Price difference too large", fetched, TRUE)

\* a variant of validate_price without the try/except around the fetch
validate_price_unguarded(symbol, ai_price, live_price, tolerance_pct, src) ==
    IF live_price.k = "none"
    THEN LET got == fetch_live_price(symbol, src)
         IN  IF got.kind = "raise"
             THEN PriceRaise("ValueError", TRUE)
             ELSE compare_price(ai_price, got.value, tolerance_pct, TRUE)
    ELSE compare_price(ai_price, live_price, tolerance_pct, FALSE)

\* validate_price(symbol, ai_price, live_price=None)
validate_price(symbol, ai_price, live_price, tolerance_pct, src) ==
    IF live_price.k = "none"
    THEN LET got == fetch_live_price(symbol, src)
         IN  IF got.kind = "raise"
             THEN PriceResult(FALSE, "Could not fetch live price", TRUE, FALSE)
             ELSE compare_price(ai_price, got.value, tolerance_pct, TRUE)
    ELSE compare_price(ai_price, live_price, tolerance_pct, FALSE)

\* ValidationOrchestrator.__init__: self.expected_ranges
expected_ranges ==
    [s \in {"BTC-USD", "ETH-USD", "NVDA", "TSLA", "AAPL", "GC=F"} |->
        CASE s = "BTC-USD" -> <<115000, 125000>>
          [] s = "ETH-USD" -> <<3800, 4200>>
          [] s = "NVDA" -> <<450, 550>>
          [] s = "TSLA" -> <<380, 420>>
          [] s = "AAPL" -> <<195, 205>>
          [] s = "GC=F" -> <<2050, 2150>>]

\* a variant of validate_price_range whose band excludes its bounds
validate_price_range_exclusive(symbol, ai_price, ranges) ==
    IF symbol \notin DOMAIN ranges
    THEN [kind |-> "ok", valid |-> TRUE, message |-> "No expected range defined"]
    ELSE IF ai_price.k \in {"none", "text"}
    THEN [kind |-> "raise", valid |-> FALSE, message |-> "TypeError"]
    ELSE IF ai_price.k = "num" /\ ranges[symbol][1] < ai_price.v
                               /\ ai_price.v < ranges[symbol][2]
    THEN [kind |-> "ok", valid |-> TRUE, message |-> "within expected range"]
    ELSE [kind |-> "ok", valid |-> FALSE, message |-> "outside expected range"]

\* validate_price_range
validate_price_range(symbol, ai_price, ranges) ==
    IF symbol \notin DOMAIN ranges
    THEN [kind |-> "ok", valid |-> TRUE, message |-> "No expected range defined"]
    ELSE IF ai_price.k \in {"none", "text"}
    THEN [kind |-> "raise", valid |-> FALSE, message |-> "TypeError"]
    ELSE IF ai_price.k = "num" /\ ranges[symbol][1] <= ai_price.v
                               /\ ai_price.v <= ranges[symbol][2]
    THEN [kind |-> "ok", valid |-> TRUE, message |-> "within expected range"]
    ELSE [kind |-> "ok", valid |-> FALSE, message |-> "outside expected range"]

-----------------------------------------------------------------------------
(* ValidationOrchestrator *)

NoTable == [present |-> FALSE, rows |-> <<>>]
Table(rows) == [present |-> TRUE, rows |-> rows]
Row(symbol, entry_price) == [symbol |-> symbol, entry_price |-> entry_price]

\* pd.notna(row.get('Entry Price'))
notna(v) == v.k \notin {"none", "nan"}

Critical(hs) == SelectSeq(hs, LAMBDA h : h.severity = "critical")

\* a variant of the loop body in which a price outside its range clears
\* overall_valid as a failed price check does
validate_row_range_invalidates(row, acc, tolerance_pct, ranges, src) ==
    IF ~notna(row.entry_price) THEN acc
    ELSE IF row.entry_price.k = "text"
    THEN [acc EXCEPT !.kind = "raise", !.error = "ValueError"]
    ELSE LET ai_price == row.entry_price
             chk == validate_price(row.symbol, ai_price, NoneVal, tolerance_pct, src)
             rng == validate_price_range(row.symbol, ai_price, ranges)
         IN  IF chk.kind = "raise"
             THEN [acc EXCEPT !.kind = "raise", !.error = chk.message,
                              !.called = @ \cup {"validate_price"}]
             ELSE [acc EXCEPT
                     !.checks = Append(@, [symbol |-> row.symbol,
                                           ai_price |-> ai_price,
                                           valid |-> chk.valid,
                                           message |-> chk.message]),
                     !.valid = IF chk.valid THEN @ + 1 ELSE @,
                     !.invalid = IF chk.valid THEN @ ELSE @ + 1,
                     !.overall_valid = IF chk.valid /\ rng.valid THEN @ ELSE FALSE,
                     !.hallucinations = IF rng.valid THEN @
                                        ELSE Append(@, PriceOutOfRange),
                     !.called = @ \cup {"validate_price", "validate_price_range"}]

\* the body of `for _, row in recommendations_df.iterrows()` for one row
validate_row(row, acc, tolerance_pct, ranges, src) ==
    IF ~notna(row.entry_price) THEN acc
    ELSE IF row.entry_price.k = "text"
    THEN [acc EXCEPT !.kind = "raise", !.error = "ValueError"]   \* float(...)
    ELSE LET ai_price == row.entry_price
             chk == validate_price(row.symbol, ai_price, NoneVal, tolerance_pct, src)
             rng == validate_price_range(row.symbol, ai_price, ranges)
         IN  IF chk.kind = "raise"
             THEN [acc EXCEPT !.kind = "raise", !.error = chk.message,
                              !.called = @ \cup {"validate_price"}]
             ELSE [acc EXCEPT
                     !.checks = Append(@, [symbol |-> row.symbol,
                                           ai_price |-> ai_price,
                                           valid |-> chk.valid,
                                           message |-> chk.message]),
                     !.valid = IF chk.valid THEN @ + 1 ELSE @,
                     !.invalid = IF chk.valid THEN @ ELSE @ + 1,
                     !.overall_valid = IF chk.valid THEN @ ELSE FALSE,
                     !.hallucinations = IF rng.valid THEN @
                                        ELSE Append(@, PriceOutOfRange),
                     !.called = @ \cup {"validate_price", "validate_price_range"}]

\* the loop over the rows, from row i on; an exception ends it
RECURSIVE validate_rows(_, _, _, _, _, _)
validate_rows(rows, i, acc, tolerance_pct, ranges, src) ==
    IF i > Len(rows) \/ acc.kind = "raise" THEN acc
    ELSE validate_rows(rows, i + 1,
                       validate_row(rows[i], acc, tolerance_pct, ranges, src),
                       tolerance_pct, ranges, src)

\* Recommendation tables and live price sources the model draws from

Tickers == {"BTC-USD", "EURUSD=X"}

\* sources that answer every lookup
Sources ==
    {src \in [Tickers -> {Price(120000), Price(60000), Price(0), NoData, NetError}] :
        /\ src["BTC-USD"] # NetError
        /\ src["EURUSD=X"] \in {Price(120000), NetError}}

SessionSources ==
    {src \in Sources : /\ src["BTC-USD"] \in {Price(120000), NoData}
                       /\ src["EURUSD=X"] = Price(120000)}

Rows == {
    Row("BTC-USD", Num(119800)),
    Row("BTC-USD", Num(60000)),
    Row("EUR/USD", Num(119800)),
    Row("EUR/USD", NaNVal),
    Row("BTC-USD", TextVal) }

RECURSIVE RowSeqs(_)
RowSeqs(n) ==
    IF n = 0 THEN {<<>>}
    ELSE LET shorter == RowSeqs(n - 1)
         IN  shorter \cup {Append(rs, r) : rs \in shorter, r \in Rows}

Tables == {NoTable} \cup {Table(rs) : rs \in RowSeqs(MaxRows)}

SessionTables == {NoTable, Table(<<Row("BTC-USD", Num(119800))>>)}

\* validate_prediction_response up to the loop: the results dict as first
\* built, with the detector's findings in it
begin_validation(response, cs, t) ==
    LET tool_usage == get_tool_usage_report(cs)
        found == check_for_hallucinations(response, cs)
    IN  IF tool_usage.kind = "raise" \/ found.kind = "raise"
        THEN [kind |-> "raise", error |-> "AttributeError",
              timestamp |-> t, tool_usage |-> [kind |-> "raise"],
              checks |-> <<>>, valid |-> 0, invalid |-> 0,
              hallucinations |-> <<>>, overall_valid |-> TRUE,
              called |-> {"get_tool_usage_report"}]
        ELSE [kind |-> "ok", error |-> "",
              timestamp |-> t, tool_usage |-> tool_usage,
              checks |-> <<>>, valid |-> 0, invalid |-> 0,
              hallucinations |-> found.issues, overall_valid |-> TRUE,
              called |-> {"get_tool_usage_report", "check_for_hallucinations"}]

\* a variant of the final step in which a finding of any severity clears
\* overall_valid
finish_validation_any_finding(acc) ==
    LET critical_hallucinations == Critical(acc.hallucinations)
        total_price_checks == acc.valid + acc.invalid
    IN  [kind |-> "verdict",
         timestamp |-> acc.timestamp,
         tool_usage |-> acc.tool_usage,
         data_freshness |-> [valid |-> 0, invalid |-> 0, checks |-> <<>>],
         price_accuracy |-> [valid |-> acc.valid, invalid |-> acc.invalid,
                             checks |-> acc.checks],
         hallucinations |-> acc.hallucinations,
         overall_valid |-> IF acc.hallucinations # <<>> THEN FALSE
                           ELSE acc.overall_valid,
         summary |-> [tools_called |-> acc.tool_usage.total_calls,
                      price_accuracy_rate |->
                          IF total_price_checks > 0
                          THEN Ratio(acc.valid, total_price_checks)
                          ELSE Ratio(0, 1),
                      hallucination_count |-> Len(acc.hallucinations),
                      critical_issues |-> Len(critical_hallucinations)]]

\* a variant of the final step that reports a full accuracy rate when no
\* price check was run
finish_validation_full_rate(acc) ==
    LET critical_hallucinations == Critical(acc.hallucinations)
        total_price_checks == acc.valid + acc.invalid
    IN  [kind |-> "verdict",
         timestamp |-> acc.timestamp,
         tool_usage |-> acc.tool_usage,
         data_freshness |-> [valid |-> 0, invalid |-> 0, checks |-> <<>>],
         price_accuracy |-> [valid |-> acc.valid, invalid |-> acc.invalid,
                             checks |-> acc.checks],
         hallucinations |-> acc.hallucinations,
         overall_valid |-> IF critical_hallucinations # <<>> THEN FALSE
                           ELSE acc.overall_valid,
         summary |-> [tools_called |-> acc.tool_usage.total_calls,
                      price_accuracy_rate |->
                          IF total_price_checks > 0
                          THEN Ratio(acc.valid, total_price_checks)
                          ELSE Ratio(1, 1),
                      hallucination_count |-> Len(acc.hallucinations),
                      critical_issues |-> Len(critical_hallucinations)]]

\* validate_prediction_response after the loop: the dict returned
finish_validation(acc) ==
    LET critical_hallucinations == Critical(acc.hallucinations)
        total_price_checks == acc.valid + acc.invalid
    IN  [kind |-> "verdict",
         timestamp |-> acc.timestamp,
         tool_usage |-> acc.tool_usage,
         data_freshness |-> [valid |-> 0, invalid |-> 0, checks |-> <<>>],
         price_accuracy |-> [valid |-> acc.valid, invalid |-> acc.invalid,
                             checks |-> acc.checks],
         hallucinations |-> acc.hallucinations,
         overall_valid |-> IF critical_hallucinations # <<>> THEN FALSE
                           ELSE acc.overall_valid,
         summary |-> [tools_called |-> acc.tool_usage.total_calls,
                      price_accuracy_rate |->
                          IF total_price_checks > 0
                          THEN Ratio(acc.valid, total_price_checks)
                          ELSE Ratio(0, 1),
                      hallucination_count |-> Len(acc.hallucinations),
                      critical_issues |-> Len(critical_hallucinations)]]

NoVerdict == [kind |-> "none"]

\* the results dict before the loop, with no findings yet
LoopStart ==
    [kind |-> "ok", error |-> "", timestamp |-> 0, tool_usage |-> [kind |-> "none"],
     checks |-> <<>>, valid |-> 0, invalid |-> 0,
     hallucinations |-> <<>>, overall_valid |-> TRUE, called |-> {}]

\* what the loop over a table adds to the results dict, computed once for
\* each table and source of the model; the orchestrator's checker has the
\* default tolerance
RowLoop ==
    [table \in Tables \cup SessionTables, src \in Sources |->
        IF table.present
        THEN validate_rows(table.rows, 1, LoopStart, DefaultTolerancePct,
                           expected_ranges, src)
        ELSE LoopStart]

\* validate_prediction_response(response, recommendations_df) on a ledger
\* holding cs, at time t: the dict returned, or the exception, and the
\* collaborator methods called on the way
validate_prediction_response(response, table, cs, t, src) ==
    LET acc0 == begin_validation(response, cs, t)
        loop == RowLoop[table, src]
    IN  IF acc0.kind = "raise"
        THEN [kind |-> "raise", error |-> acc0.error, called |-> acc0.called,
              value |-> NoVerdict]
        ELSE IF loop.kind = "raise"
        THEN [kind |-> "raise", error |-> loop.error,
              called |-> acc0.called \cup loop.called, value |-> NoVerdict]
        ELSE [kind |-> "verdict", error |-> "",
              called |-> acc0.called \cup loop.called,
              value |-> finish_validation(
                  [acc0 EXCEPT !.checks = loop.checks,
                               !.valid = loop.valid,
                               !.invalid = loop.invalid,
                               !.overall_valid = loop.overall_valid,
                               !.hallucinations = @ \o loop.hallucinations])]

\* what a holder of the returned dict reads in it: call_details is looked up
\* through the reference to the ledger's list
Deref(v, cs) ==
    [verdict |-> v,
     call_details |-> IF v.kind = "verdict" /\ v.tool_usage.call_details = "self.calls"
                      THEN cs ELSE <<>>]

\* the report text, line by line.  '{rate:.1%}' is the rate in tenths of a
\* percent, rounded to the nearest
PercentTenths(r) == (2000 * r.num + r.den) \div (2 * r.den)

\* h['severity'].upper()
SeverityTag(severity) ==
    CASE severity = "warning" -> "WARNING"
      [] severity = "critical" -> "CRITICAL"
      [] OTHER -> severity

ReportHead(v) == <<
    [section |-> "title", text |-> "# Validation Report"],
    [section |-> "title", text |-> "Generated", value |-> v.timestamp],
    [section |-> "summary", text |-> "Overall Valid",
     value |-> IF v.overall_valid THEN "PASS" ELSE "FAIL"],
    [section |-> "summary", text |-> "Tools Called",
     value |-> v.summary.tools_called],
    [section |-> "summary", text |-> "Price Accuracy",
     value |-> PercentTenths(v.summary.price_accuracy_rate)],
    [section |-> "summary", text |-> "Hallucinations",
     value |-> v.summary.hallucination_count],
    [section |-> "summary", text |-> "Critical Issues",
     value |-> v.summary.critical_issues],
    [section |-> "tool_usage", text |-> "Total Calls",
     value |-> v.tool_usage.total_calls],
    [section |-> "tool_usage", text |-> "Tools Used",
     value |-> v.tool_usage.tools_used],
    [section |-> "tool_usage", text |-> "Data Sources",
     value |-> Cardinality(v.tool_usage.data_sources)],
    [section |-> "price", text |-> "## Price Validation"] >>

\* status = "PASS mark" if check['valid'] else "FAIL mark"
PriceLine(check) ==
    [section |-> "price_line",
     status |-> IF check.valid THEN "pass" ELSE "fail",
     symbol |-> check.symbol, message |-> check.message]

\* a variant of the price line that shows the verdict's outcome as its mark
PriceLine_overall(v, check) ==
    [section |-> "price_line",
     status |-> IF v.overall_valid THEN "pass" ELSE "fail",
     symbol |-> check.symbol, message |-> check.message]

\* h.get('detail', h.get('indicator', ''))
FindingLine(h) ==
    [section |-> "finding", tag |-> SeverityTag(h.severity), type |-> h.type,
     shown |-> IF h.type = "outdated_language"
               THEN [key |-> "indicator", indicator |-> h.indicator]
               ELSE [key |-> "detail", detail |-> h.detail]]

\* a variant of the report whose price lines carry the mark of the verdict
generate_test_report_overall_marks(v) ==
    ReportHead(v)
    \o [i \in 1..Len(v.price_accuracy.checks) |->
           PriceLine_overall(v, v.price_accuracy.checks[i])]
    \o (IF v.hallucinations # <<>>
        THEN <<[section |-> "findings", text |-> "## Potential Hallucinations"]>>
             \o [i \in 1..Len(v.hallucinations) |-> FindingLine(v.hallucinations[i])]
        ELSE <<>>)

\* generate_test_report(validation_results)
generate_test_report(v) ==
    ReportHead(v)
    \o [i \in 1..Len(v.price_accuracy.checks) |->
           PriceLine(v.price_accuracy.checks[i])]
    \o (IF v.hallucinations # <<>>
        THEN <<[section |-> "findings", text |-> "## Potential Hallucinations"]>>
             \o [i \in 1..Len(v.hallucinations) |-> FindingLine(v.hallucinations[i])]
        ELSE <<>>)

-----------------------------------------------------------------------------
(* Inputs *)

CallIds == {"call_001"}

\* tool calls a caller records: a search with one result, a page fetch
ToolEvents == {
    [tool |-> "web_search", params |-> NoParams,
     response |-> ResultList(<<Entry("https://example.com")>>)],
    [tool |-> "browse_page",
     params |-> UrlParams("https://finance.yahoo.com/quote/BTC-USD"),
     response |-> NoResults] }

-----------------------------------------------------------------------------
(* State machine *)

NoRequest == [op |-> "none"]
NoThreads == [c \in {} |-> 0]
NoReturn == [kind |-> "none"]
NoPrevious == [request |-> NoRequest, results |-> NoVerdict]

InitBase ==
    /\ calls = EmptyCalls
    /\ start_times = EmptyStartTimes
    /\ now = 0
    /\ results = NoVerdict
    /\ snapshot = Deref(NoVerdict, EmptyCalls)
    /\ invoked = {}
    /\ request = NoRequest
    /\ ret = NoReturn
    /\ vpc = "idle"
    /\ vrow = 0
    /\ vtable = NoTable
    /\ vacc = NoVerdict
    /\ threads = NoThreads
    /\ logged = 0
    /\ previous = NoPrevious

Init ==
    /\ InitBase
    /\ source \in SessionSources

\* ToolCallLogger.start_call
StartCall ==
    \E call_id \in CallIds :
        /\ start_times' = start_call(start_times, call_id, now)
        /\ UNCHANGED <<calls, now, results, snapshot, invoked, request, ret,
                       source, vpc, vrow, vtable, vacc, threads, logged, previous>>

\* ToolCallLogger.log_call
LogCall ==
    /\ Len(calls) < MaxCalls
    /\ \E call_id \in CallIds, ev \in ToolEvents :
        /\ calls' = Append(calls, log_call_record(start_times, call_id, ev.tool,
                                                  ev.params, ev.response, now))
        /\ start_times' = log_call_timers(start_times, call_id)
    /\ logged' = logged + 1
    /\ UNCHANGED <<now, results, snapshot, invoked, request, ret,
                   source, vpc, vrow, vtable, vacc, threads, previous>>

\* ValidationOrchestrator.validate_prediction_response(text, table): the
\* caller keeps the dict returned
Validate(text, table) ==
    \E out \in {validate_prediction_response(text, table, calls, now, source)} :
        /\ results' = IF out.kind = "verdict" THEN out.value ELSE results
        /\ snapshot' = IF out.kind = "verdict" THEN Deref(out.value, calls)
                       ELSE snapshot
        /\ invoked' = out.called
        /\ request' = [op |-> "validate_prediction_response",
                       response |-> text, table |-> table,
                       outcome |-> out.kind, error |-> out.error]
        /\ UNCHANGED <<calls, start_times, now, ret, source,
                       vpc, vrow, vtable, vacc, threads, logged, previous>>

\* the tool call validate_grok_response records when the response text
\* mentions a tool
SimulatedCall(st, t) ==
    log_call_record(st, "simulated_call_1", "web_search", NoParams,
                    ResultList(<<Entry("https://example.com")>>), t)

\* validate_grok_response(response_content, recommendations_df) on the
\* session's orchestrator
HostValidate(text, table) ==
    \E mentions \in {Scanned[text].mentions} :
    \E cs \in {IF mentions THEN Append(calls, SimulatedCall(start_times, now))
               ELSE calls} :
    \E out \in {validate_prediction_response(text, table, cs, now, source)} :
        /\ mentions => Len(calls) < MaxCalls
        /\ calls' = cs
        /\ start_times' = IF mentions
                          THEN log_call_timers(start_times, "simulated_call_1")
                          ELSE start_times
        /\ results' = IF out.kind = "verdict" THEN out.value ELSE results
        /\ snapshot' = IF out.kind = "verdict" THEN Deref(out.value, cs)
                       ELSE snapshot
        /\ invoked' = out.called
        /\ request' = [op |-> "validate_grok_response",
                       response |-> text, table |-> table,
                       outcome |-> out.kind, error |-> out.error]
        /\ logged' = IF mentions THEN logged + 1 ELSE logged
        /\ UNCHANGED <<now, ret, source, vpc, vrow, vtable, vacc, threads, previous>>

SessionValidate ==
    \E text \in SessionTexts, table \in SessionTables : Validate(text, table)

SessionHostValidate ==
    \E text \in SessionTexts, table \in SessionTables : HostValidate(text, table)

Next ==
    \/ StartCall
    \/ LogCall
    \/ SessionValidate
    \/ SessionHostValidate

Spec == Init /\ [][Next]_vars

-----------------------------------------------------------------------------
(* The host session: every model response goes through                     *)
(* validate_grok_response on the orchestrator kept in st.session_state     *)

InitHost ==
    /\ InitBase
    /\ source \in SessionSources

\* responses of the host session: with and without a tool mention
HostPieces == {
    <<"E","T","H"," ","a","t"," ","$","4",",","0","0","0",".","5","0"," ">>,
    <<"v","i","a"," ","w","e","b","_","s","e","a","r","c","h"," ">>,
    <<"B","r","o","w","s","e","_","P","a","g","e"," ">> }

HostTexts == TextsFrom(HostPieces, MaxPieces)

HostSession ==
    \E text \in HostTexts, table \in SessionTables : HostValidate(text, table)

NextHost == HostSession

SpecHost == InitHost /\ [][NextHost]_vars

-----------------------------------------------------------------------------
(* One check on a ledger that has been filled before it *)

\* HallucinationDetector.check_for_hallucinations(text, tool_logger)
Detect(text) ==
    \E out \in {check_for_hallucinations(text, calls)} :
        /\ ret' = out
        /\ request' = [op |-> "check_for_hallucinations",
                       response |-> text, table |-> NoTable,
                       outcome |-> out.kind, error |-> ""]
        /\ UNCHANGED <<calls, start_times, now, results, snapshot, invoked,
                       source, vpc, vrow, vtable, vacc, threads, logged, previous>>

SetupCall == request = NoRequest /\ LogCall

ValidateOnce ==
    /\ request = NoRequest
    /\ \E text \in ReportTexts, table \in Tables : Validate(text, table)

DetectOnce ==
    /\ request = NoRequest
    /\ \E text \in Texts : Detect(text)

InitCheck ==
    /\ InitBase
    /\ source \in Sources

NextCheck ==
    \/ SetupCall
    \/ ValidateOnce
    \/ DetectOnce

SpecCheck == InitCheck /\ [][NextCheck]_vars

-----------------------------------------------------------------------------
(* PriceAccuracyChecker.validate_price called directly *)

PriceSymbols == {"BTC-USD", "EUR/USD"}

\* cited prices: around the tolerance bands of the live prices, None and NaN
CitedPrices ==
    {NoneVal, NaNVal}
    \cup {Num(v) : v \in {-100, 0, 50, 94, 95, 96, 98, 99, 100, 101, 102,
                          104, 105, 106, 150, 197, 198, 202, 203}}

\* live_price argument: not supplied (None), a number, NaN
LivePrices == {NoneVal, NaNVal} \cup {Num(v) : v \in {-100, -37, 0, 100, 200}}

Tolerances == {0, 1, 5}

PriceSources ==
    {src \in [Tickers -> {Price(100), Price(-100), Price(0), NaNClose,
                          NoData, NetError}] :
        src["EURUSD=X"] \in {Price(100), NoData}}

ValidatePrice(symbol, ai_price, live_price, tolerance_pct) ==
    /\ ret' = validate_price(symbol, ai_price, live_price, tolerance_pct, source)
    /\ request' = [op |-> "validate_price", symbol |-> symbol,
                   ai_price |-> ai_price, live_price |-> live_price,
                   tolerance_pct |-> tolerance_pct]
    /\ UNCHANGED <<calls, start_times, now, results, snapshot, invoked,
                   source, vpc, vrow, vtable, vacc, threads, logged, previous>>

PriceCall ==
    /\ request = NoRequest
    /\ \E symbol \in PriceSymbols, ai_price \in CitedPrices,
          live_price \in LivePrices, tolerance_pct \in Tolerances :
           ValidatePrice(symbol, ai_price, live_price, tolerance_pct)

\* validate_price_range called directly
RangeSymbols == {"BTC-USD", "ETH-USD", "DOGE-USD"}

\* cited prices at, next to and far from the bounds of the bands
RangePrices ==
    {NaNVal}
    \cup {Num(v) : v \in {60000, 114999, 115000, 120000, 125000, 125001,
                          3799, 3800, 4000, 4200, 4201}}

\* the orchestrator's map, a map with one band, an empty map
RangeMaps ==
    {expected_ranges,
     [s \in {"BTC-USD"} |-> <<115000, 125000>>],
     [s \in {} |-> <<0, 0>>]}

ValidatePriceRange(symbol, ai_price, ranges) ==
    /\ ret' = validate_price_range(symbol, ai_price, ranges)
    /\ request' = [op |-> "validate_price_range", symbol |-> symbol,
                   ai_price |-> ai_price, ranges |-> ranges]
    /\ UNCHANGED <<calls, start_times, now, results, snapshot, invoked,
                   source, vpc, vrow, vtable, vacc, threads, logged, previous>>

RangeCall ==
    /\ request = NoRequest
    /\ \E symbol \in RangeSymbols, ai_price \in RangePrices, ranges \in RangeMaps :
           ValidatePriceRange(symbol, ai_price, ranges)

InitPrice ==
    /\ InitBase
    /\ source \in PriceSources

NextPrice ==
    \/ PriceCall
    \/ RangeCall

SpecPrice == InitPrice /\ [][NextPrice]_vars

-----------------------------------------------------------------------------
(* A validation whose live lookups wait for the source to answer.          *)
(* fetch_live_price calls yf.download and returns when it returns; the     *)
(* checker sets no timeout and has no other way out of the call.           *)

LiveSources == [Tickers -> {Price(120000), NoData, NoAnswer}]

\* validate_prediction_response is entered: the dict is built and the
\* detector has run
BeginValidation ==
    /\ vpc \in {"idle", "done", "raised"}
    /\ \E text \in SessionTexts, table \in Tables :
        \E acc0 \in {begin_validation(text, calls, now)} :
            /\ vacc' = acc0
            /\ vtable' = table
            /\ vrow' = 1
            /\ vpc' = "rows"
            /\ request' = [op |-> "validate_prediction_response",
                           response |-> text, table |-> table,
                           outcome |-> "running", error |-> ""]
    /\ UNCHANGED <<calls, start_times, now, results, snapshot, invoked,
                   ret, source, threads, logged, previous>>

\* a row needs the live source when its entry price is a number
NeedsLookup(row) == notna(row.entry_price) /\ row.entry_price.k # "text"

\* one pass of the loop body; a row that needs the source is passed when
\* the lookup has returned or raised
CheckRow ==
    /\ vpc = "rows"
    /\ vrow <= Len(vtable.rows)
    /\ NeedsLookup(vtable.rows[vrow])
          => source[YfTicker(vtable.rows[vrow].symbol)] # NoAnswer
    /\ \E acc \in {validate_row(vtable.rows[vrow], vacc, DefaultTolerancePct,
                                expected_ranges, source)} :
        /\ vacc' = acc
        /\ vpc' = IF acc.kind = "raise" THEN "raised" ELSE "rows"
        /\ vrow' = vrow + 1
    /\ UNCHANGED <<calls, start_times, now, results, snapshot, invoked,
                   request, ret, source, vtable, threads, logged, previous>>

\* the loop is over: the summary is computed and the dict returned
FinishValidation ==
    /\ vpc = "rows"
    /\ vrow > Len(vtable.rows)
    /\ \E v \in {finish_validation(vacc)} :
        /\ results' = v
        /\ snapshot' = Deref(v, calls)
    /\ vpc' = "done"
    /\ UNCHANGED <<calls, start_times, now, invoked, request, ret, source,
                   vrow, vtable, vacc, threads, logged, previous>>

InitLive ==
    /\ InitBase
    /\ source \in LiveSources

NextLive ==
    \/ BeginValidation
    \/ CheckRow
    \/ FinishValidation

SpecLive == InitLive /\ [][NextLive]_vars /\ WF_vars(NextLive)

-----------------------------------------------------------------------------
(* DataFreshnessValidator *)

\* __init__: max_age_minutes
DefaultMaxAgeMinutes == 5

DigitVal(c) ==
    CASE c = "0" -> 0 [] c = "1" -> 1 [] c = "2" -> 2 [] c = "3" -> 3
      [] c = "4" -> 4 [] c = "5" -> 5 [] c = "6" -> 6 [] c = "7" -> 7
      [] c = "8" -> 8 [] c = "9" -> 9

\* the n characters of text from i on are digits
AreDigits(text, i, n) ==
    /\ i + n - 1 <= Len(text)
    /\ \A j \in i..(i + n - 1) : text[j] \in Digits

RECURSIVE DigitsValue(_, _, _)
DigitsValue(text, i, n) ==
    IF n = 0 THEN 0
    ELSE 10 * DigitsValue(text, i, n - 1) + DigitVal(text[i + n - 1])

\* str.replace(old, new), left to right
RECURSIVE Replace(_, _, _)
Replace(text, old, new) ==
    IF Len(text) < Len(old) THEN text
    ELSE IF SubSeq(text, 1, Len(old)) = old
    THEN new \o Replace(SubSeq(text, Len(old) + 1, Len(text)), old, new)
    ELSE <<text[1]>> \o Replace(Tail(text), old, new)

IsLeap(y) == (y % 4 = 0 /\ y % 100 # 0) \/ y % 400 = 0

DaysInMonth(y, m) ==
    IF m = 2 THEN (IF IsLeap(y) THEN 29 ELSE 28)
    ELSE IF m \in {4, 6, 9, 11} THEN 30 ELSE 31

RECURSIVE DaysBeforeMonth(_, _)
DaysBeforeMonth(y, m) ==
    IF m <= 1 THEN 0 ELSE DaysBeforeMonth(y, m - 1) + DaysInMonth(y, m - 1)

\* the first year the model counts seconds from
EpochYear == 2024

RECURSIVE DaysBeforeYear(_)
DaysBeforeYear(y) ==
    IF y <= EpochYear THEN 0
    ELSE DaysBeforeYear(y - 1) + (IF IsLeap(y - 1) THEN 366 ELSE 365)

\* a naive datetime as the seconds from the start of EpochYear
Seconds(y, m, d, hh, mm, ss) ==
    (DaysBeforeYear(y) + DaysBeforeMonth(y, m) + d - 1) * 86400
        + hh * 3600 + mm * 60 + ss

NoDateTime == [ok |-> FALSE, wall |-> 0, aware |-> FALSE, offset |-> 0]
DateTime(wall, aware, offset) ==
    [ok |-> TRUE, wall |-> wall, aware |-> aware, offset |-> offset]

\* HH:MM:SS at position i of text
ClockAt(text, i) ==
    IF /\ AreDigits(text, i, 2) /\ AreDigits(text, i + 3, 2)
       /\ AreDigits(text, i + 6, 2)
       /\ text[i + 2] = ":" /\ text[i + 5] = ":"
       /\ DigitsValue(text, i, 2) < 24
       /\ DigitsValue(text, i + 3, 2) < 60
       /\ DigitsValue(text, i + 6, 2) < 60
    THEN [ok |-> TRUE,
          seconds |-> DigitsValue(text, i, 2) * 3600
                        + DigitsValue(text, i + 3, 2) * 60
                        + DigitsValue(text, i + 6, 2)]
    ELSE [ok |-> FALSE, seconds |-> 0]

\* YYYY-MM-DD at the start of text, as days from the start of EpochYear
DateAt(text) ==
    IF /\ AreDigits(text, 1, 4) /\ AreDigits(text, 6, 2) /\ AreDigits(text, 9, 2)
       /\ text[5] = "-" /\ text[8] = "-"
       /\ DigitsValue(text, 1, 4) >= EpochYear
       /\ DigitsValue(text, 6, 2) \in 1..12
       /\ DigitsValue(text, 9, 2) >= 1
       /\ DigitsValue(text, 9, 2)
             <= DaysInMonth(DigitsValue(text, 1, 4), DigitsValue(text, 6, 2))
    THEN [ok |-> TRUE,
          days |-> DaysBeforeYear(DigitsValue(text, 1, 4))
                     + DaysBeforeMonth(DigitsValue(text, 1, 4),
                                       DigitsValue(text, 6, 2))
                     + DigitsValue(text, 9, 2) - 1]
    ELSE [ok |-> FALSE, days |-> 0]

\* datetime.fromisoformat on YYYY-MM-DD?HH:MM:SS with or without +HH:MM
fromisoformat(text) ==
    IF Len(text) \notin {19, 25} THEN NoDateTime
    ELSE LET date == DateAt(text)
             clock == ClockAt(text, 12)
         IN  IF ~date.ok \/ ~clock.ok THEN NoDateTime
             ELSE IF Len(text) = 19
             THEN DateTime(date.days * 86400 + clock.seconds, FALSE, 0)
             ELSE IF /\ text[20] \in {"+", "-"}
                     /\ AreDigits(text, 21, 2) /\ text[23] = ":"
                     /\ AreDigits(text, 24, 2)
                     /\ DigitsValue(text, 21, 2) < 24
                     /\ DigitsValue(text, 24, 2) < 60
             THEN DateTime(date.days * 86400 + clock.seconds, TRUE,
                           (IF text[20] = "-" THEN -1 ELSE 1)
                             * (DigitsValue(text, 21, 2) * 60
                                  + DigitsValue(text, 24, 2)))
             ELSE NoDateTime

\* datetime.strptime(text, '%Y-%m-%d %H:%M:%S')
strptime_standard(text) ==
    IF Len(text) # 19 \/ text[11] # " " THEN NoDateTime
    ELSE LET date == DateAt(text)
             clock == ClockAt(text, 12)
         IN  IF date.ok /\ clock.ok
             THEN DateTime(date.days * 86400 + clock.seconds, FALSE, 0)
             ELSE NoDateTime

MonthNames == <<
    <<"J","a","n","u","a","r","y">>, <<"F","e","b","r","u","a","r","y">>,
    <<"M","a","r","c","h">>, <<"A","p","r","i","l">>, <<"M","a","y">>,
    <<"J","u","n","e">>, <<"J","u","l","y">>, <<"A","u","g","u","s","t">>,
    <<"S","e","p","t","e","m","b","e","r">>, <<"O","c","t","o","b","e","r">>,
    <<"N","o","v","e","m","b","e","r">>, <<"D","e","c","e","m","b","e","r">> >>

StartsWith(text, prefix) ==
    Len(text) >= Len(prefix) /\ SubSeq(text, 1, Len(prefix)) = prefix

\* datetime.strptime(text, '%B %d, %Y %H:%M:%S')
strptime_long(text) ==
    LET months == {m \in 1..12 : StartsWith(Lower(text), Lower(MonthNames[m]))}
    IN  IF months = {} THEN NoDateTime
        ELSE LET m == CHOOSE m \in months :
                          \A n \in months : Len(MonthNames[n]) <= Len(MonthNames[m])
                 rest == SubSeq(text, Len(MonthNames[m]) + 1, Len(text))
             IN  IF /\ Len(rest) = 18
                    /\ rest[1] = " " /\ AreDigits(rest, 2, 2)
                    /\ rest[4] = "," /\ rest[5] = " " /\ AreDigits(rest, 6, 4)
                    /\ rest[10] = " "
                    /\ DigitsValue(rest, 6, 4) >= EpochYear
                    /\ DigitsValue(rest, 2, 2) >= 1
                    /\ DigitsValue(rest, 2, 2)
                          <= DaysInMonth(DigitsValue(rest, 6, 4), m)
                    /\ ClockAt(rest, 11).ok
                 THEN DateTime((DaysBeforeYear(DigitsValue(rest, 6, 4))
                                  + DaysBeforeMonth(DigitsValue(rest, 6, 4), m)
                                  + DigitsValue(rest, 2, 2) - 1) * 86400
                                 + ClockAt(rest, 11).seconds, FALSE, 0)
                 ELSE NoDateTime

\* the try block up to the comparison: the datetime parsed, if any
parse_timestamp(timestamp_str) ==
    IF Contains(<<"T">>, timestamp_str)
    THEN fromisoformat(Replace(timestamp_str, <<"Z">>,
                               <<"+","0","0",":","0","0">>))
    ELSE IF strptime_standard(timestamp_str).ok
    THEN strptime_standard(timestamp_str)
    ELSE strptime_long(timestamp_str)

\* a variant of the age test with a strict comparison
timestamp_fresh_strict(data_time, current_time, max_age_minutes) ==
    current_time.wall - data_time.wall < max_age_minutes * 60

\* age_minutes <= self.max_age_minutes, after both datetimes had their
\* tzinfo replaced by None
timestamp_fresh(data_time, current_time, max_age_minutes) ==
    current_time.wall - data_time.wall <= max_age_minutes * 60

\* a timestamp argument that is no string (None)
NoText == <<"None">>

\* validate_timestamp(timestamp_str, current_time); every exception of the
\* try block is caught and gives False
validate_timestamp(timestamp_str, current_time, max_age_minutes) ==
    IF timestamp_str = NoText THEN FALSE
    ELSE LET data_time == parse_timestamp(timestamp_str)
         IN  IF ~data_time.ok THEN FALSE
             ELSE timestamp_fresh(data_time, current_time, max_age_minutes)

\* timestamp texts: the accepted formats at, inside and outside the age
\* limit, with and without offsets, and texts no format accepts
TimestampTexts == {
    NoText,
    <<"2","0","2","4","-","1","2","-","1","8","T","1","4",":","0","0",":","0","0">>,
    <<"2","0","2","4","-","1","2","-","1","8","T","1","3",":","5","9",":","5","9">>,
    <<"2","0","2","4","-","1","2","-","1","8","T","1","4",":","0","3",":","0","0">>,
    <<"2","0","2","4","-","1","2","-","1","8","T","1","4",":","1","0",":","0","0">>,
    <<"2","0","2","4","-","1","2","-","1","7","T","1","4",":","0","3",":","0","0">>,
    <<"2","0","2","4","-","1","2","-","1","8","T","1","4",":","0","0",":","0","0","Z">>,
    <<"2","0","2","4","-","1","2","-","1","8","T","1","3",":","5","5",":","0","0","Z">>,
    <<"2","0","2","4","-","1","2","-","1","8","T","1","4",":","0","0",":","0","0","+","0","0",":","0","0">>,
    <<"2","0","2","4","-","1","2","-","1","8","T","1","6",":","0","0",":","0","0","+","0","2",":","0","0">>,
    <<"2","0","2","4","-","1","2","-","1","8","T","0","9",":","0","0",":","0","0","-","0","5",":","0","0">>,
    <<"2","0","2","4","-","1","2","-","1","8"," ","1","4",":","0","0",":","0","0">>,
    <<"2","0","2","4","-","1","2","-","1","8"," ","1","3",":","5","9",":","5","9">>,
    <<"D","e","c","e","m","b","e","r"," ","1","8",","," ","2","0","2","4"," ","1","4",":","0","0",":","0","0">>,
    <<"D","e","c","e","m","b","e","r"," ","1","8",","," ","2","0","2","4"," ","1","3",":","5","0",":","0","0">>,
    <<"y","e","s","t","e","r","d","a","y">>,
    <<"T","u","e","s","d","a","y">>,
    <<"1","8","/","1","2","/","2","0","2","4"," ","1","4",":","0","0">>,
    <<"2","0","2","4","-","1","2","-","1","8"," ","1","6",":","0","0",":","0","0","+","0","2",":","0","0">>,
    <<"2","0","2","4","-","1","3","-","4","5","T","9","9",":","0","0",":","0","0">>,
    <<>> }

\* reference times: 2024-12-18 14:05:00 and 15:00:00, naive, UTC and +02:00
ReferenceTimes == {
    DateTime(Seconds(2024, 12, 18, 14, 5, 0), FALSE, 0),
    DateTime(Seconds(2024, 12, 18, 14, 5, 0), TRUE, 0),
    DateTime(Seconds(2024, 12, 18, 15, 0, 0), TRUE, 0),
    DateTime(Seconds(2024, 12, 18, 16, 5, 0), TRUE, 120) }

MaxAges == {DefaultMaxAgeMinutes, 60}

ValidateTimestamp(timestamp_str, current_time, max_age_minutes) ==
    /\ ret' = [kind |-> "ok",
               value |-> validate_timestamp(timestamp_str, current_time,
                                            max_age_minutes)]
    /\ request' = [op |-> "validate_timestamp", timestamp_str |-> timestamp_str,
                   current_time |-> current_time,
                   max_age_minutes |-> max_age_minutes]
    /\ UNCHANGED <<calls, start_times, now, results, snapshot, invoked,
                   source, vpc, vrow, vtable, vacc, threads, logged, previous>>

TimestampCall ==
    /\ request = NoRequest
    /\ \E timestamp_str \in TimestampTexts, current_time \in ReferenceTimes,
          max_age_minutes \in MaxAges :
           ValidateTimestamp(timestamp_str, current_time, max_age_minutes)

AfterWord == <<"a","f","t","e","r",":">>
BeforeWord == <<"b","e","f","o","r","e",":">>

\* a variant of validate_search_query that takes any after: filter
validate_search_query_any_after(query, current_date) ==
    LET has_after == Contains(AfterWord, query)
        has_before == Contains(BeforeWord, query)
    IN  IF has_after /\ has_before
        THEN [valid |-> TRUE, message |-> "Query has proper date filters"]
        ELSE IF has_after
        THEN [valid |-> FALSE, message |-> "Query missing 'before' date filter"]
        ELSE IF has_before
        THEN [valid |-> FALSE, message |-> "Query missing 'after' date filter"]
        ELSE [valid |-> FALSE, message |-> "Query missing both date filters"]

\* validate_search_query(query, current_date).  has_before is
\* f"before:{next_day}" in query or "before:" in query; the first test implies
\* the second, so next_day does not matter.
validate_search_query(query, current_date) ==
    LET has_after == Contains(AfterWord \o current_date, query)
        has_before == Contains(BeforeWord, query)
    IN  IF has_after /\ has_before
        THEN [valid |-> TRUE, message |-> "Query has proper date filters"]
        ELSE IF has_after
        THEN [valid |-> FALSE, message |-> "Query missing 'before' date filter"]
        ELSE IF has_before
        THEN [valid |-> FALSE, message |-> "Query missing 'after' date filter"]
        ELSE [valid |-> FALSE, message |-> "Query missing both date filters"]

QueryPieces == {
    <<"B","T","C"," ","p","r","i","c","e"," ">>,
    <<"a","f","t","e","r",":","2","0","2","4","-","1","2","-","1","8"," ">>,
    <<"a","f","t","e","r",":","2","0","2","4","-","1","2","-","1","7"," ">>,
    <<"b","e","f","o","r","e",":","2","0","2","4","-","1","2","-","1","9"," ">>,
    <<"b","e","f","o","r","e",":"," ">>,
    <<"a","f","t","e","r",":"," ">> }

Queries == TextsFrom(QueryPieces, MaxPieces)

CurrentDates == {<<"2","0","2","4","-","1","2","-","1","8">>,
                 <<"2","0","2","4","-","1","2","-","1","7">>}

ValidateSearchQuery(query, current_date) ==
    /\ ret' = validate_search_query(query, current_date)
    /\ request' = [op |-> "validate_search_query", query |-> query,
                   current_date |-> current_date]
    /\ UNCHANGED <<calls, start_times, now, results, snapshot, invoked,
                   source, vpc, vrow, vtable, vacc, threads, logged, previous>>

QueryCall ==
    /\ request = NoRequest
    /\ \E query \in Queries, current_date \in CurrentDates :
           ValidateSearchQuery(query, current_date)

\* a live price source for the runs that fetch no price
NoSource == [t \in Tickers |-> NoData]

InitFresh ==
    /\ InitBase
    /\ source = NoSource

NextFresh ==
    \/ TimestampCall
    \/ QueryCall

SpecFresh == InitFresh /\ [][NextFresh]_vars

-----------------------------------------------------------------------------
(* The ledger used directly: start_call, log_call and                      *)
(* get_tool_usage_report in any order, while the clock advances            *)

MaxTime == 1        \* clock readings after the first

LedgerIds == {"call_001", "call_002"}

\* payloads that are no mapping, no list, no mapping entry
NoneParams == [kind |-> "none", has_url |-> FALSE, url |-> ""]
NoneResults ==
    [kind |-> "dict", has_results |-> TRUE, results_kind |-> "none",
     results |-> <<>>]
TextEntry == [kind |-> "str", has_url |-> FALSE, url |-> ""]

\* well-formed tool calls: searches whose result entries have a url or none,
\* page fetches with and without a url, a tool of another name
LedgerEvents == {
    [tool |-> "web_search", params |-> NoParams,
     response |-> ResultList(<<Entry("https://example.com")>>)],
    [tool |-> "web_search", params |-> NoParams,
     response |-> ResultList(<<Entry("https://example.com"), TitleEntry>>)],
    [tool |-> "browse_page", params |-> UrlParams("https://example.com"),
     response |-> NoResults],
    [tool |-> "browse_page", params |-> NoParams, response |-> NoResults],
    [tool |-> "calculator", params |-> NoParams, response |-> NoResults] }

\* tool calls with malformed payloads
MalformedEvents == {
    [tool |-> "browse_page", params |-> NoneParams, response |-> NoResults],
    [tool |-> "web_search", params |-> NoParams, response |-> NoneResults],
    [tool |-> "web_search", params |-> NoParams,
     response |-> ResultList(<<TextEntry>>)] }

\* the tool calls of the timed runs: a search and a tool of another name
TimedEvents == {
    [tool |-> "web_search", params |-> NoParams,
     response |-> ResultList(<<Entry("https://example.com")>>)],
    [tool |-> "calculator", params |-> NoParams, response |-> NoResults] }

LedgerStart ==
    \E call_id \in LedgerIds :
        /\ start_times' = start_call(start_times, call_id, now)
        /\ request' = [op |-> "start_call", call_id |-> call_id]
        /\ UNCHANGED <<calls, now, results, snapshot, invoked, ret,
                       source, vpc, vrow, vtable, vacc, threads, logged, previous>>

\* the tool call a call id stands for
EventOf(call_id) ==
    IF call_id = "call_001"
    THEN [tool |-> "web_search", params |-> NoParams,
          response |-> ResultList(<<Entry("https://example.com")>>)]
    ELSE [tool |-> "calculator", params |-> NoParams, response |-> NoResults]

LedgerLog ==
    /\ Len(calls) < MaxCalls
    /\ \E call_id \in LedgerIds : \E ev \in {EventOf(call_id)} :
        /\ calls' = Append(calls, log_call_record(start_times, call_id, ev.tool,
                                                  ev.params, ev.response, now))
        /\ start_times' = log_call_timers(start_times, call_id)
        /\ request' = [op |-> "log_call", call_id |-> call_id]
    /\ logged' = logged + 1
    /\ UNCHANGED <<now, results, snapshot, invoked, ret,
                   source, vpc, vrow, vtable, vacc, threads, previous>>

LedgerReport ==
    /\ ret' = get_tool_usage_report(calls)
    /\ request' = [op |-> "get_tool_usage_report", call_id |-> ""]
    /\ UNCHANGED <<calls, start_times, now, results, snapshot, invoked,
                   source, vpc, vrow, vtable, vacc, threads, logged, previous>>

\* time passes
Tick ==
    /\ now < MaxTime
    /\ now' = now + 1
    /\ UNCHANGED <<calls, start_times, results, snapshot, invoked, request, ret,
                   source, vpc, vrow, vtable, vacc, threads, logged, previous>>

InitLedger ==
    /\ InitBase
    /\ source = NoSource

NextLedger ==
    \/ LedgerStart
    \/ LedgerLog
    \/ LedgerReport
    \/ Tick

SpecLedger == InitLedger /\ [][NextLedger]_vars

-----------------------------------------------------------------------------
(* The ledger's report over recorded payloads of every shape *)

PayloadLog ==
    /\ Len(calls) < MaxCalls
    /\ \E ev \in LedgerEvents \cup MalformedEvents :
        /\ calls' = Append(calls, log_call_record(start_times, "call_001", ev.tool,
                                                  ev.params, ev.response, now))
        /\ start_times' = log_call_timers(start_times, "call_001")
        /\ request' = [op |-> "log_call", call_id |-> "call_001"]
    /\ logged' = logged + 1
    /\ UNCHANGED <<now, results, snapshot, invoked, ret,
                   source, vpc, vrow, vtable, vacc, threads, previous>>

InitPayload ==
    /\ InitBase
    /\ source = NoSource

NextPayload ==
    \/ PayloadLog
    \/ LedgerReport

SpecPayload == InitPayload /\ [][NextPayload]_vars

-----------------------------------------------------------------------------
(* Tool calls in flight at the same time: one thread for each call id,     *)
(* each running start_call (or not) and then log_call on the one ledger.   *)
(* A step is one operation on the dict or the list, which the interpreter  *)
(* runs whole; threads are switched between them.                          *)

NewThread ==
    [pc |-> "new", started |-> FALSE, started_at |-> 0,
     duration_ms |-> NoDuration, measured_at |-> 0]

\* start_call: self.start_times[call_id] = time.time()
ThreadStart(id) ==
    /\ threads[id].pc = "new"
    /\ start_times' = start_call(start_times, id, now)
    /\ threads' = [threads EXCEPT ![id].pc = "started",
                                  ![id].started = TRUE,
                                  ![id].started_at = now]
    /\ UNCHANGED <<calls, now, results, snapshot, invoked, request, ret,
                   source, vpc, vrow, vtable, vacc, logged, previous>>

\* log_call is entered: if call_id in self.start_times
ThreadCheck(id) ==
    /\ threads[id].pc \in {"new", "started"}
    /\ threads' = [threads EXCEPT
                     ![id].pc = IF id \in DOMAIN start_times
                                THEN "measure" ELSE "append"]
    /\ logged' = logged + 1
    /\ UNCHANGED <<calls, start_times, now, results, snapshot, invoked,
                   request, ret, source, vpc, vrow, vtable, vacc, previous>>

\* duration_ms = (time.time() - self.start_times[call_id]) * 1000;
\* KeyError when the entry is gone
ThreadMeasure(id) ==
    /\ threads[id].pc = "measure"
    /\ threads' =
          IF id \in DOMAIN start_times
          THEN [threads EXCEPT
                  ![id].pc = "delete",
                  ![id].duration_ms =
                      log_call_record(start_times, id, "", NoParams,
                                      NoResults, now).duration_ms,
                  ![id].measured_at = now]
          ELSE [threads EXCEPT ![id].pc = "raised"]
    /\ UNCHANGED <<calls, start_times, now, results, snapshot, invoked,
                   request, ret, source, vpc, vrow, vtable, vacc, logged, previous>>

\* del self.start_times[call_id]; KeyError when the entry is gone
ThreadDelete(id) ==
    /\ threads[id].pc = "delete"
    /\ IF id \in DOMAIN start_times
       THEN /\ start_times' = log_call_timers(start_times, id)
            /\ threads' = [threads EXCEPT ![id].pc = "append"]
       ELSE /\ start_times' = start_times
            /\ threads' = [threads EXCEPT ![id].pc = "raised"]
    /\ UNCHANGED <<calls, now, results, snapshot, invoked, request, ret,
                   source, vpc, vrow, vtable, vacc, logged, previous>>

\* self.calls.append({...}) with the duration measured before
ThreadAppend(id) ==
    /\ threads[id].pc = "append"
    /\ \E ev \in TimedEvents :
        calls' = Append(calls,
                        [log_call_record(EmptyStartTimes, id, ev.tool, ev.params,
                                         ev.response, now)
                            EXCEPT !.duration_ms = threads[id].duration_ms])
    /\ threads' = [threads EXCEPT ![id].pc = "done"]
    /\ UNCHANGED <<start_times, now, results, snapshot, invoked, request, ret,
                   source, vpc, vrow, vtable, vacc, logged, previous>>

InitThreads ==
    /\ calls = EmptyCalls
    /\ start_times = EmptyStartTimes
    /\ now = 0
    /\ results = NoVerdict
    /\ snapshot = Deref(NoVerdict, EmptyCalls)
    /\ invoked = {}
    /\ request = NoRequest
    /\ ret = NoReturn
    /\ source = NoSource
    /\ vpc = "idle"
    /\ vrow = 0
    /\ vtable = NoTable
    /\ vacc = NoVerdict
    /\ threads = [id \in LedgerIds |-> NewThread]
    /\ logged = 0
    /\ previous = NoPrevious

ThreadTick ==
    /\ now < MaxTime
    /\ now' = now + 1
    /\ UNCHANGED <<calls, start_times, results, snapshot, invoked, request, ret,
                   source, vpc, vrow, vtable, vacc, threads, logged, previous>>

NextThreads ==
    \/ \E id \in LedgerIds : ThreadStart(id)
    \/ \E id \in LedgerIds : ThreadCheck(id)
    \/ \E id \in LedgerIds : ThreadMeasure(id)
    \/ \E id \in LedgerIds : ThreadDelete(id)
    \/ \E id \in LedgerIds : ThreadAppend(id)
    \/ ThreadTick

SpecThreads == InitThreads /\ [][NextThreads]_vars

-----------------------------------------------------------------------------
(* Validations repeated in a session whose clock advances                  *)

\* a variant of validate_prediction_response that keeps the findings of the
\* call before in the orchestrator and returns them again
RepeatValidate_accumulating(text, table) ==
    \E out \in {validate_prediction_response(text, table, calls, now, source)} :
        /\ results' = IF out.kind # "verdict" THEN results
                       ELSE IF results.kind # "verdict" THEN out.value
                       ELSE [out.value EXCEPT
                               !.hallucinations = results.hallucinations \o @]
        /\ snapshot' = IF out.kind = "verdict" THEN Deref(out.value, calls)
                       ELSE snapshot
        /\ invoked' = out.called
        /\ request' = [op |-> "validate_prediction_response",
                       response |-> text, table |-> table, ledger |-> calls,
                       outcome |-> out.kind, error |-> out.error]
        /\ previous' = [request |-> request, results |-> results]
        /\ UNCHANGED <<calls, start_times, now, ret, source,
                       vpc, vrow, vtable, vacc, threads, logged>>

\* a variant of validate_prediction_response that records a tool call of its
\* own when the response mentions a tool, as validate_grok_response does
RepeatValidate_recording(text, table) ==
    \E mentions \in {Scanned[text].mentions /\ Len(calls) < MaxCalls} :
    \E cs \in {IF mentions THEN Append(calls, SimulatedCall(start_times, now))
               ELSE calls} :
    \E out \in {validate_prediction_response(text, table, cs, now, source)} :
        /\ calls' = cs
        /\ results' = IF out.kind = "verdict" THEN out.value ELSE results
        /\ snapshot' = IF out.kind = "verdict" THEN Deref(out.value, cs)
                       ELSE snapshot
        /\ invoked' = out.called
        /\ request' = [op |-> "validate_prediction_response",
                       response |-> text, table |-> table, ledger |-> calls,
                       outcome |-> out.kind, error |-> out.error]
        /\ previous' = [request |-> request, results |-> results]
        /\ logged' = IF mentions THEN logged + 1 ELSE logged
        /\ UNCHANGED <<start_times, now, ret, source,
                       vpc, vrow, vtable, vacc, threads>>

\* ValidationOrchestrator.validate_prediction_response(text, table) called by
\* a caller that still holds the verdict of its call before; the request
\* notes the ledger the call ran on
RepeatValidate(text, table) ==
    \E out \in {validate_prediction_response(text, table, calls, now, source)} :
        /\ results' = IF out.kind = "verdict" THEN out.value ELSE results
        /\ snapshot' = IF out.kind = "verdict" THEN Deref(out.value, calls)
                       ELSE snapshot
        /\ invoked' = out.called
        /\ request' = [op |-> "validate_prediction_response",
                       response |-> text, table |-> table, ledger |-> calls,
                       outcome |-> out.kind, error |-> out.error]
        /\ previous' = [request |-> request, results |-> results]
        /\ UNCHANGED <<calls, start_times, now, ret, source,
                       vpc, vrow, vtable, vacc, threads, logged>>

RepeatSession ==
    \E text \in SessionTexts, table \in SessionTables : RepeatValidate(text, table)

InitRepeat ==
    /\ InitBase
    /\ source \in SessionSources

\* the session records its tool call before or between the validations
RepeatLog == calls = EmptyCalls /\ LogCall

NextRepeat ==
    \/ StartCall
    \/ RepeatLog
    \/ RepeatSession
    \/ Tick

SpecRepeat == InitRepeat /\ [][NextRepeat]_vars

-----------------------------------------------------------------------------
(* A verdict and the report rendered from it *)

\* ValidationOrchestrator.generate_test_report(results) on the verdict the
\* caller holds
GenerateReport ==
    /\ request.op = "validate_prediction_response"
    /\ request.outcome = "verdict"
    /\ ret' = [kind |-> "ok", text |-> generate_test_report(results)]
    /\ request' = [op |-> "generate_test_report", validation_results |-> results,
                   outcome |-> "ok", error |-> ""]
    /\ UNCHANGED <<calls, start_times, now, results, snapshot, invoked,
                   source, vpc, vrow, vtable, vacc, threads, logged, previous>>

InitReport ==
    /\ InitBase
    /\ source \in SessionSources

NextReport ==
    \/ SetupCall
    \/ ValidateOnce
    \/ GenerateReport

SpecReport == InitReport /\ [][NextReport]_vars

-----------------------------------------------------------------------------
(* get_tool_usage_report running while other threads record calls: the     *)
(* method reads self.calls once per statement and takes no lock            *)

NewReport ==
    [pc |-> "idle", tools_used |-> {}, sum |-> 0,
     avg_time |-> Ratio(0, 1), data_sources |-> {}]

\* if not self.calls: return the report of an empty ledger
ReportEnter ==
    /\ threads["report"].pc = "idle"
    /\ IF calls = <<>>
       THEN /\ ret' = get_tool_usage_report(<<>>)
            /\ threads' = [threads EXCEPT !["report"].pc = "done"]
       ELSE /\ ret' = ret
            /\ threads' = [threads EXCEPT !["report"].pc = "tools"]
    /\ UNCHANGED <<calls, start_times, now, results, snapshot, invoked, request,
                   source, vpc, vrow, vtable, vacc, logged, previous>>

\* tools_used = list(set(c['tool'] for c in self.calls))
ReportTools ==
    /\ threads["report"].pc = "tools"
    /\ threads' = [threads EXCEPT
                     !["report"].tools_used = {calls[i].tool : i \in DOMAIN calls},
                     !["report"].pc = "sum"]
    /\ UNCHANGED <<calls, start_times, now, results, snapshot, invoked, request,
                   ret, source, vpc, vrow, vtable, vacc, logged, previous>>

\* sum(c['duration_ms'] for c in self.calls if c['duration_ms'])
ReportSum ==
    /\ threads["report"].pc = "sum"
    /\ threads' = [threads EXCEPT !["report"].sum = SumDurations(calls),
                                  !["report"].pc = "len"]
    /\ UNCHANGED <<calls, start_times, now, results, snapshot, invoked, request,
                   ret, source, vpc, vrow, vtable, vacc, logged, previous>>

\* avg_time = <the sum> / len(self.calls)
ReportAverage ==
    /\ threads["report"].pc = "len"
    /\ threads' = [threads EXCEPT
                     !["report"].avg_time = Ratio(threads["report"].sum, Len(calls)),
                     !["report"].pc = "sources"]
    /\ UNCHANGED <<calls, start_times, now, results, snapshot, invoked, request,
                   ret, source, vpc, vrow, vtable, vacc, logged, previous>>

\* for call in self.calls: data_sources.append(...)
ReportSources ==
    /\ threads["report"].pc = "sources"
    /\ threads' = [threads EXCEPT
                     !["report"].data_sources =
                         UNION {CallDataSources(calls[i]).urls : i \in DOMAIN calls},
                     !["report"].pc = "return"]
    /\ UNCHANGED <<calls, start_times, now, results, snapshot, invoked, request,
                   ret, source, vpc, vrow, vtable, vacc, logged, previous>>

\* return {'total_calls': len(self.calls), ..., 'call_details': self.calls}
ReportReturn ==
    /\ threads["report"].pc = "return"
    /\ ret' = [kind |-> "ok",
               total_calls |-> Len(calls),
               tools_used |-> threads["report"].tools_used,
               avg_response_time |-> threads["report"].avg_time,
               data_sources |-> threads["report"].data_sources,
               call_details |-> "self.calls"]
    /\ threads' = [threads EXCEPT !["report"].pc = "done"]
    /\ UNCHANGED <<calls, start_times, now, results, snapshot, invoked, request,
                   source, vpc, vrow, vtable, vacc, logged, previous>>

InitSnapshot ==
    /\ calls = EmptyCalls
    /\ start_times = EmptyStartTimes
    /\ now = 0
    /\ results = NoVerdict
    /\ snapshot = Deref(NoVerdict, EmptyCalls)
    /\ invoked = {}
    /\ request = NoRequest
    /\ ret = NoReturn
    /\ source = NoSource
    /\ vpc = "idle"
    /\ vrow = 0
    /\ vtable = NoTable
    /\ vacc = NoVerdict
    /\ threads = [r \in {"report"} |-> NewReport]
    /\ logged = 0
    /\ previous = NoPrevious

NextSnapshot ==
    \/ LedgerStart
    \/ LedgerLog
    \/ Tick
    \/ ReportEnter
    \/ ReportTools
    \/ ReportSum
    \/ ReportAverage
    \/ ReportSources
    \/ ReportReturn

SpecSnapshot == InitSnapshot /\ [][NextSnapshot]_vars

-----------------------------------------------------------------------------
(* Properties *)

ValidateReturned ==
    /\ request.op = "validate_prediction_response"
    /\ request.outcome = "verdict"

SomeInvalidCheck(v) ==
    \E i \in 1..Len(v.price_accuracy.checks) : ~v.price_accuracy.checks[i].valid

SomeCriticalFinding(v) ==
    \E i \in 1..Len(v.hallucinations) : v.hallucinations[i].severity = "critical"

\* C1: in every verdict validate_prediction_response returns, overall_valid is
\* false exactly when some price check of the verdict is invalid or some
\* finding is critical; warnings alone leave it true, and a verdict with no
\* checks and no findings is valid.
C1_OverallValidIffNoInvalidNoCritical ==
    ValidateReturned =>
        /\ ~results.overall_valid
              <=> (SomeInvalidCheck(results) \/ SomeCriticalFinding(results))
        /\ (/\ results.price_accuracy.checks = <<>>
            /\ results.hallucinations = <<>>) => results.overall_valid

\* a verdict with a passed price check and warnings only (outdated language
\* and a price outside its expected range) that is valid
C1_Witness ==
    /\ ValidateReturned
    /\ results.overall_valid
    /\ results.price_accuracy.checks # <<>>
    /\ \E i \in 1..Len(results.hallucinations) :
          results.hallucinations[i].type = "outdated_language"
    /\ \E i \in 1..Len(results.hallucinations) :
          results.hallucinations[i].type = "price_out_of_range"

DetectReturned ==
    /\ request.op = "check_for_hallucinations"
    /\ ret.kind = "ok"

Uncited(issues) == SelectSeq(issues, LAMBDA h : h.type = "uncited_data")

\* C2: check_for_hallucinations on a text in which the price pattern matches
\* at least once: with an empty ledger it yields exactly one uncited_data
\* finding, critical, whose count is the number of matches; with a ledger of
\* one or more records it yields no uncited_data finding.
C2_UncitedDataIffEmptyLedger ==
    (DetectReturned /\ Findall(request.response) # <<>>) =>
        IF Len(calls) = 0
        THEN /\ Len(Uncited(ret.issues)) = 1
             /\ Uncited(ret.issues)[1].severity = "critical"
             /\ Uncited(ret.issues)[1].count = Len(Findall(request.response))
        ELSE Uncited(ret.issues) = <<>>

\* a text with two prices checked against an empty ledger
C2_Witness ==
    /\ DetectReturned
    /\ Len(calls) = 0
    /\ Len(Findall(request.response)) = 2
    /\ Len(Uncited(ret.issues)) = 1
    /\ Uncited(ret.issues)[1].count = 2

\* C3: in the host flow a response that cites prices and mentions no tool is
\* validated against a ledger without earlier responses' records: it gets the
\* uncited_data finding and overall_valid = FALSE.
C3_HostLedgerFreshPerResponse ==
    (/\ request.op = "validate_grok_response"
     /\ request.outcome = "verdict"
     /\ Findall(request.response) # <<>>
     /\ ~MentionsTool(request.response)) =>
        /\ Uncited(results.hallucinations) # <<>>
        /\ ~results.overall_valid

\* C4: what a holder of a returned verdict reads in it is what it held when
\* validate_prediction_response returned, whatever was called since.
C4_VerdictNeverChanges == Deref(results, calls) = snapshot

FreshnessMethods == {"validate_timestamp", "validate_search_query"}

\* C5: every validation runs the four checks: the tool-usage report, the
\* freshness validator, the price checker's part and the detector; the
\* freshness validator is invoked during the validation.
C5_AllFourChecksRun ==
    ValidateReturned =>
        /\ "get_tool_usage_report" \in invoked
        /\ "check_for_hallucinations" \in invoked
        /\ invoked \cap FreshnessMethods # {}

PriceCalled == request.op = "validate_price"

\* C6: validate_price with a live price supplied: invalid when the live price
\* is 0, whatever the cited price; for a live price other than 0 and a cited
\* number or NaN, valid exactly when |cited - live| / live * 100 <= T, the
\* boundary included (a NaN deviation is not <= T).
C6_ValidIffDeviationWithinTolerance ==
    (PriceCalled /\ request.live_price.k = "num") =>
        LET c == request.ai_price.v
            l == request.live_price.v
            T == request.tolerance_pct
        IN  /\ l = 0 => (ret.kind = "ok" /\ ~ret.valid)
            /\ (l > 0 /\ request.ai_price.k = "num") =>
                  (ret.kind = "ok" /\ (ret.valid <=> Abs(c - l) * 100 <= T * l))
            /\ (l < 0 /\ request.ai_price.k = "num") =>
                  (ret.kind = "ok" /\ (ret.valid <=> Abs(c - l) * 100 >= T * l))
            /\ (l # 0 /\ request.ai_price.k = "nan") =>
                  (ret.kind = "ok" /\ ~ret.valid)

\* a cited price exactly 1% above the live price, tolerance 1: valid
C6_Witness ==
    /\ PriceCalled
    /\ request.ai_price = Num(101)
    /\ request.live_price = Num(100)
    /\ request.tolerance_pct = 1
    /\ ret.kind = "ok"
    /\ ret.valid

\* the live price a validate_price call compared with
LiveUsed ==
    IF request.live_price.k = "none"
    THEN source[YfTicker(request.symbol)]
    ELSE request.live_price

\* C7: a valid price check result means the cited price is within the
\* tolerance percentage of the live price's magnitude:
\* |cited - live| * 100 <= T * |live|, for a negative live price too.
C7_ValidOnlyWithinToleranceOfMagnitude ==
    (PriceCalled /\ ret.kind = "ok" /\ ret.valid) =>
        /\ LiveUsed.k = "num"
        /\ request.ai_price.k = "num"
        /\ Abs(request.ai_price.v - LiveUsed.v) * 100
              <= request.tolerance_pct * Abs(LiveUsed.v)

NumericRows(table) ==
    \A i \in 1..Len(table.rows) : table.rows[i].entry_price.k # "text"

PricedRows(table) ==
    SelectSeq(table.rows, LAMBDA r : notna(r.entry_price))

FetchFails(symbol) == source[YfTicker(symbol)].k \in {"empty", "error"}

\* C8: a failing live price source is no exception of the validation: with
\* numeric entry prices validate_prediction_response returns a verdict; every
\* priced row has its check, in order; a row whose fetch failed has an
\* invalid check with the "Could not fetch live price" message, counted once
\* as invalid, and the rows after it are checked as well.
C8_FetchFailureIsAnInvalidCheck ==
    (/\ request.op = "validate_prediction_response"
     /\ request.table.present
     /\ NumericRows(request.table)
     /\ get_tool_usage_report(calls).kind = "ok") =>
        /\ request.outcome = "verdict"
        /\ LET rows == PricedRows(request.table)
               checks == results.price_accuracy.checks
           IN  /\ Len(checks) = Len(rows)
               /\ \A i \in 1..Len(rows) :
                     /\ checks[i].symbol = rows[i].symbol
                     /\ FetchFails(rows[i].symbol) =>
                           /\ ~checks[i].valid
                           /\ checks[i].message = "Could not fetch live price"
               /\ results.price_accuracy.invalid
                     = Cardinality({i \in 1..Len(checks) : ~checks[i].valid})
               /\ results.price_accuracy.valid
                     = Cardinality({i \in 1..Len(checks) : checks[i].valid})

\* the first row's fetch fails, the second row is checked and passes
C8_Witness ==
    /\ ValidateReturned
    /\ request.table.present
    /\ Len(request.table.rows) = 2
    /\ FetchFails(request.table.rows[1].symbol)
    /\ Len(results.price_accuracy.checks) = 2
    /\ results.price_accuracy.checks[1].message = "Could not fetch live price"
    /\ results.price_accuracy.checks[2].valid
    /\ results.price_accuracy.invalid = 1

\* C9: a validation that has entered its loop over a table of numeric entry
\* prices eventually returns its verdict, whether or not the live price
\* source answers.
C9_ValidateEventuallyReturns ==
    (vpc = "rows" /\ NumericRows(vtable)) ~> (vpc = "done")

\* C10: validate_price with a cited price of None or NaN returns invalid,
\* raises nothing, fetches no live price and computes no deviation.
C10_MissingCitedPriceShortCircuits ==
    (PriceCalled /\ request.ai_price.k \in {"none", "nan"}) =>
        /\ ret.kind = "ok"
        /\ ~ret.valid
        /\ ~ret.fetched
        /\ ~ret.computed

RangeCalled == request.op = "validate_price_range" /\ ret.kind = "ok"

\* C11: validate_price_range on a cited number (or NaN) is valid exactly when
\* the symbol has no entry in the map or min <= cited <= max for its entry,
\* both bounds included; otherwise the message is "outside expected range".
C11_RangeValidIffAbsentOrWithinBand ==
    (request.op = "validate_price_range"
        /\ request.ai_price.k \in {"num", "nan"}) =>
        LET sym == request.symbol
            band == request.ranges
            inside == /\ request.ai_price.k = "num"
                      /\ band[sym][1] <= request.ai_price.v
                      /\ request.ai_price.v <= band[sym][2]
        IN  /\ ret.kind = "ok"
            /\ ret.valid <=> (sym \notin DOMAIN band \/ inside)
            /\ ~ret.valid => ret.message = "outside expected range"

\* a cited price equal to the upper bound of its band is valid
C11_Witness ==
    /\ RangeCalled
    /\ request.symbol = "BTC-USD"
    /\ request.symbol \in DOMAIN request.ranges
    /\ request.ai_price = Num(125000)
    /\ ret.valid

TimestampCalled == request.op = "validate_timestamp"

\* the offset a datetime carries, 0 when it carries none
OffsetOf(dt) == IF dt.aware THEN dt.offset ELSE 0

C13_OffsetsAreNormalized ==
    (/\ TimestampCalled
     /\ request.timestamp_str # NoText
     /\ parse_timestamp(request.timestamp_str).ok
     /\ parse_timestamp(request.timestamp_str).aware
     /\ request.current_time.aware) =>
        LET parsed == parse_timestamp(request.timestamp_str)
            ref == request.current_time
            age == (ref.wall - ref.offset * 60) - (parsed.wall - parsed.offset * 60)
        IN  ret.value <=> age <= request.max_age_minutes * 60

QueryCalled == request.op = "validate_search_query"

\* C14: validate_search_query with current date d is valid exactly when the
\* query contains "after:" followed by d and contains "before:"; when it is
\* not, the message names the missing filter: 'before' when only after:d is
\* there, 'after' when only before: is there, both when neither is.
C14_QueryScopedIffAfterDateAndBefore ==
    QueryCalled =>
        LET after == Contains(AfterWord \o request.current_date, request.query)
            before == Contains(BeforeWord, request.query)
        IN  /\ ret.valid <=> (after /\ before)
            /\ (after /\ before)
                  => ret.message = "Query has proper date filters"
            /\ (after /\ ~before)
                  => ret.message = "Query missing 'before' date filter"
            /\ (~after /\ before)
                  => ret.message = "Query missing 'after' date filter"
            /\ (~after /\ ~before)
                  => ret.message = "Query missing both date filters"

\* a query with an after: filter for another day and a before: filter is
\* turned down for its after filter
C14_Witness ==
    /\ QueryCalled
    /\ Contains(AfterWord, request.query)
    /\ ~Contains(AfterWord \o request.current_date, request.query)
    /\ Contains(BeforeWord, request.query)
    /\ ~ret.valid
    /\ ret.message = "Query missing 'after' date filter"

\* C15: every log_call(id, ...) appends exactly one record at the end of the
\* ledger and leaves the records before it as they were; the record has a
\* duration exactly when the timer map holds id, and afterwards the map holds
\* no entry for id and every other entry it held; the timer map gains an
\* entry only by start_call, so it holds id exactly when start_call(id) was
\* called since the last log_call(id).
C15_LogCallAppendsOneRecord ==
    [][ /\ logged' \in {logged, logged + 1}
        /\ logged' = logged + 1 =>
              /\ request'.op = "log_call"
              /\ Len(calls') = Len(calls) + 1
              /\ SubSeq(calls', 1, Len(calls)) = calls
              /\ calls'[Len(calls')].call_id = request'.call_id
              /\ (calls'[Len(calls')].duration_ms # NoDuration)
                    <=> (request'.call_id \in DOMAIN start_times)
              /\ request'.call_id \in DOMAIN start_times =>
                    calls'[Len(calls')].duration_ms
                        = Num((now - start_times[request'.call_id]) * 1000)
              /\ start_times'
                    = [c \in DOMAIN start_times \ {request'.call_id}
                          |-> start_times[c]]
        /\ logged' = logged =>
              /\ calls' = calls
              /\ \/ start_times' = start_times
                 \/ /\ request'.op = "start_call"
                    /\ DOMAIN start_times'
                          = DOMAIN start_times \cup {request'.call_id}
                    /\ start_times'[request'.call_id] = now
      ]_vars

\* a call started and recorded, then recorded again with no new start: the
\* first record has a duration, the second has none
C15_Witness ==
    /\ Len(calls) = 2
    /\ calls[1].call_id = calls[2].call_id
    /\ calls[1].duration_ms = Num(1000)
    /\ calls[2].duration_ms = NoDuration
    /\ calls[1].call_id \notin DOMAIN start_times

ReportReturned ==
    /\ request.op = "get_tool_usage_report"
    /\ ret.kind = "ok"

\* C16: get_tool_usage_report reports total_calls equal to the number of
\* log_call invocations made so far, 0 and no error on an empty ledger, and
\* as tools_used the distinct tool names recorded; it changes nothing in the
\* ledger, and start_call changes nothing the report reads.
C16_ReportCountsRecordedCalls ==
    [][ /\ request'.op = "get_tool_usage_report" =>
              /\ calls' = calls
              /\ start_times' = start_times
              /\ logged' = logged
              /\ ret'.kind = "ok" =>
                    /\ ret'.total_calls = logged
                    /\ ret'.tools_used = {calls[i].tool : i \in 1..Len(calls)}
              /\ logged = 0 => (ret'.kind = "ok" /\ ret'.total_calls = 0)
        /\ request'.op = "start_call" =>
              /\ calls' = calls
              /\ logged' = logged
              /\ get_tool_usage_report(calls') = get_tool_usage_report(calls)
      ]_vars

\* two records of one tool under one call id: two calls, one tool name
C16_Witness ==
    /\ ReportReturned
    /\ logged = 2
    /\ calls[1].call_id = calls[2].call_id
    /\ ret.total_calls = 2
    /\ ret.tools_used = {"web_search"}

\* the URLs the records hold: the url argument of page fetches, the url of
\* the entries of search results
UrlsPresent(cs) ==
    {cs[i].params.url :
        i \in {j \in 1..Len(cs) : /\ cs[j].tool = "browse_page"
                                  /\ cs[j].params.has_url}}
    \cup UNION {
        {cs[i].response.results[k].url :
            k \in {n \in 1..Len(cs[i].response.results) :
                       cs[i].response.results[n].has_url}} :
        i \in {j \in 1..Len(cs) : cs[j].tool = "web_search"}}

\* C17: data_sources of the report is exactly the set of URLs present in the
\* page-fetch records' url argument and in the url of the search records'
\* result entries; a record or entry with no url adds nothing.
C17_DataSourcesAreTheUrlsPresent ==
    ReportReturned => ret.data_sources = UrlsPresent(calls)

\* C18: get_tool_usage_report returns a report whatever payloads were
\* recorded.
C18_ReportNeverRaises ==
    request.op = "get_tool_usage_report" => ret.kind = "ok"

Timed(cs) == SelectSeq(cs, LAMBDA c : c.duration_ms # NoDuration)

\* C19: avg_response_time of the report is the sum of the durations divided
\* by the number of records that have a duration, and 0 when no record has
\* one.
C19_MeanOverTimedRecords ==
    (ReportReturned /\ calls # <<>>) =>
        IF Timed(calls) = <<>>
        THEN ret.avg_response_time.num = 0
        ELSE ret.avg_response_time.num * Len(Timed(calls))
                = SumDurations(Timed(calls)) * ret.avg_response_time.den

AllThreadsDone == \A id \in DOMAIN threads : threads[id].pc = "done"

RecordsOf(id) == SelectSeq(calls, LAMBDA c : c.call_id = id)

\* C20: however the steps of concurrent start_call and log_call invocations
\* for distinct call ids interleave, no invocation raises, and when all have
\* returned the ledger holds exactly one record for each log_call, with the
\* duration measured from its own call's start (none when the call was not
\* started), and the timer map holds none of the recorded ids.
C20_ConcurrentCallsAllRecorded ==
    /\ \A id \in DOMAIN threads : threads[id].pc # "raised"
    /\ (threads # NoThreads /\ AllThreadsDone) =>
          /\ Len(calls) = logged
          /\ logged = Cardinality(DOMAIN threads)
          /\ \A id \in DOMAIN threads :
                /\ Len(RecordsOf(id)) = 1
                /\ RecordsOf(id)[1].duration_ms
                      = IF threads[id].started
                        THEN Num((threads[id].measured_at
                                    - threads[id].started_at) * 1000)
                        ELSE NoDuration
                /\ id \notin DOMAIN start_times

\* two started calls whose records were appended in the other order than
\* they were started, with different durations
C20_Witness ==
    /\ threads # NoThreads
    /\ AllThreadsDone
    /\ threads["call_001"].started /\ threads["call_002"].started
    /\ threads["call_001"].started_at < threads["call_002"].started_at
    /\ calls[1].call_id = "call_002"
    /\ calls[1].duration_ms = Num(0)
    /\ calls[2].duration_ms = Num(1000)

HasFinding(v, type) ==
    \E i \in 1..Len(v.hallucinations) : v.hallucinations[i].type = type

MentionsOutdatedPhrase(text) ==
    \E i \in 1..Len(outdated_indicators) :
        Contains(Lower(outdated_indicators[i]), Lower(text))

Dollar60000 == <<"$","6","0",",","0","0","0">>

SameInputsAsBefore ==
    /\ request.op = "validate_prediction_response"
    /\ previous.request.op = "validate_prediction_response"
    /\ request.response = previous.request.response
    /\ request.table = previous.request.table
    /\ request.ledger = previous.request.ledger

ValidateStep ==
    /\ request'.op = "validate_prediction_response"
    /\ <<request, results, previous>>' # <<request, results, previous>>

\* C29: a call of validate_prediction_response leaves the ledger's records,
\* its timers and the live price source as they were, and the verdict it
\* returns is the one determined by the response, the table, the ledger's
\* records, the live prices and the time of the call, whatever was validated
\* before.
C29_ValidateLeavesCollaboratorsUnchanged ==
    [][ValidateStep =>
          /\ calls' = calls
          /\ start_times' = start_times
          /\ source' = source
          /\ logged' = logged
          /\ request'.outcome = "verdict" =>
                results' = validate_prediction_response(
                               request'.response, request'.table,
                               calls, now, source).value]_vars

\* a second validation, of another response, on a ledger with one record and
\* a timer still running: both are as they were before it
C29_Witness ==
    /\ ValidateReturned
    /\ previous.request.op = "validate_prediction_response"
    /\ previous.request.response # request.response
    /\ previous.results.hallucinations # <<>>
    /\ results.hallucinations = <<>>
    /\ Len(calls) = 1
    /\ request.ledger = calls
    /\ DOMAIN start_times # {}

\* C23: validate_prediction_response returns a verdict for every response and
\* table, malformed ones included; it never raises.
C23_ValidateNeverRaises ==
    request.op = "validate_prediction_response" => request.outcome = "verdict"

ReportReturnedText == request.op = "generate_test_report" /\ ret.kind = "ok"

LinesOf(text, section) == SelectSeq(text, LAMBDA l : l.section = section)

\* C24: generate_test_report leaves the verdict and the ledger as they were
\* and its text is determined by the verdict: the header shows PASS exactly
\* when overall_valid holds; the price lines are the price checks, one line a
\* check, in order, each with the pass mark exactly when its check is valid;
\* the bullets are the findings, one a finding, in order, each tagged with
\* its severity.
C24_ReportRendersTheVerdict ==
    [][(request'.op = "generate_test_report" /\ request.op # "generate_test_report") =>
          LET text == ret'.text
              price_lines == LinesOf(text, "price_line")
              bullets == LinesOf(text, "finding")
              checks == results.price_accuracy.checks
          IN  /\ results' = results
              /\ calls' = calls
              /\ start_times' = start_times
              /\ ret'.kind = "ok"
              /\ text = generate_test_report(request'.validation_results)
              /\ \E i \in 1..Len(text) :
                    /\ text[i].text = "Overall Valid"
                    /\ text[i].value = "PASS" <=> results.overall_valid
                    /\ text[i].value = "FAIL" <=> ~results.overall_valid
              /\ Len(price_lines) = Len(checks)
              /\ \A i \in 1..Len(checks) :
                    /\ price_lines[i].symbol = checks[i].symbol
                    /\ price_lines[i].message = checks[i].message
                    /\ price_lines[i].status = "pass" <=> checks[i].valid
              /\ Len(bullets) = Len(results.hallucinations)
              /\ \A i \in 1..Len(bullets) :
                    /\ bullets[i].type = results.hallucinations[i].type
                    /\ bullets[i].tag
                          = SeverityTag(results.hallucinations[i].severity)]_vars

\* the report of an invalid verdict whose first price check passed and whose
\* second failed, with a warning and a critical finding
C24_Witness ==
    /\ ReportReturnedText
    /\ ~results.overall_valid
    /\ Len(LinesOf(ret.text, "price_line")) = 2
    /\ LinesOf(ret.text, "price_line")[1].status = "pass"
    /\ LinesOf(ret.text, "price_line")[2].status = "fail"
    /\ \E i \in 1..Len(ret.text) :
          ret.text[i].section = "finding" /\ ret.text[i].tag = "WARNING"
    /\ \E i \in 1..Len(ret.text) :
          ret.text[i].section = "finding" /\ ret.text[i].tag = "CRITICAL"

\* the phrases of outdated_indicators that occur in a text, ignoring case
PhrasesIn ==
    [text \in AllTexts |->
        {i \in 1..Len(outdated_indicators) :
            Contains(Lower(outdated_indicators[i]), Lower(text))}]

OutdatedLanguageOf(issues, i) ==
    SelectSeq(issues, LAMBDA h : h.type = "outdated_language" /\ h.indicator = i)

\* C25: check_for_hallucinations yields, for each phrase of
\* outdated_indicators, one outdated_language warning when the phrase occurs
\* in the response ignoring case, however often, and none when it does not,
\* on every ledger; a response with no listed phrase and no price match,
\* checked against a non-empty ledger, yields no finding at all.
C25_OneWarningPerOutdatedPhrase ==
    DetectReturned =>
        /\ \A i \in 1..Len(outdated_indicators) :
              LET found == OutdatedLanguageOf(ret.issues, i)
              IN  IF i \in PhrasesIn[request.response]
                  THEN Len(found) = 1 /\ found[1].severity = "warning"
                  ELSE found = <<>>
        /\ \A j \in 1..Len(ret.issues) :
              ret.issues[j].type = "outdated_language" =>
                  ret.issues[j].indicator \in 1..Len(outdated_indicators)
        /\ (/\ PhrasesIn[request.response] = {}
            /\ Findall(request.response) = <<>>
            /\ Len(calls) > 0) => ret.issues = <<>>

\* two phrases, one of them in capitals: a warning for each, on a ledger that
\* holds a record
C25_Witness ==
    /\ DetectReturned
    /\ Len(calls) > 0
    /\ Contains(<<"T","Y","P","I","C","A","L","L","Y">>, request.response)
    /\ Len(OutdatedLanguageOf(ret.issues, 4)) = 1
    /\ Len(OutdatedLanguageOf(ret.issues, 1)) = 1
    /\ Len(ret.issues) = 2

\* the whole dollars of a matched amount: "$60,000" is 60000, "$4,000.50" 4000
RECURSIVE AmountFrom(_, _, _)
AmountFrom(token, i, acc) ==
    IF i > Len(token) \/ token[i] = "." THEN acc
    ELSE IF token[i] \in Digits
    THEN AmountFrom(token, i + 1, 10 * acc + DigitVal(token[i]))
    ELSE AmountFrom(token, i + 1, acc)

\* an amount within a tenth of 60,000
Around60000(amount) == 54000 <= amount /\ amount <= 66000

MentionsAround60000(text) ==
    \E i \in 1..Len(Findall(text)) : Around60000(AmountFrom(Findall(text)[i], 1, 0))

StalePrices(issues) == SelectSeq(issues, LAMBDA h : h.type = "outdated_price")

\* C26: check_for_hallucinations yields one critical outdated_price finding
\* exactly when the response has a dollar amount around $60,000 together with
\* "BTC"; with BTC and other amounts only, or without BTC, it yields none, on
\* every ledger.
C26_StalePriceIffAround60000WithBTC ==
    DetectReturned =>
        IF MentionsAround60000(request.response)
              /\ Contains(BTCWord, request.response)
        THEN /\ Len(StalePrices(ret.issues)) = 1
             /\ StalePrices(ret.issues)[1].severity = "critical"
        ELSE StalePrices(ret.issues) = <<>>

\* the row's price is a number outside the band expected_ranges has for its
\* symbol
OutOfBand(row) ==
    /\ row.symbol \in DOMAIN expected_ranges
    /\ row.entry_price.k = "num"
    /\ \/ row.entry_price.v < expected_ranges[row.symbol][1]
       \/ row.entry_price.v > expected_ranges[row.symbol][2]

RangeWarnings(v) ==
    SelectSeq(v.hallucinations, LAMBDA h : h.type = "price_out_of_range")

\* C27: in a verdict of validate_prediction_response there is one
\* price_out_of_range warning for each priced row whose price is outside the
\* expected band of its symbol, whether the row's price check passed or not;
\* the range outcome is no entry of the price-accuracy list and no part of
\* its counts, and a verdict with no invalid check and no finding but range
\* warnings is valid.
C27_RangeWarningPerOutOfBandRow ==
    ValidateReturned =>
        LET rows == PricedRows(request.table)
            checks == results.price_accuracy.checks
            warnings == RangeWarnings(results)
        IN  /\ Len(warnings)
                  = Cardinality({i \in 1..Len(rows) : OutOfBand(rows[i])})
            /\ \A i \in 1..Len(warnings) : warnings[i].severity = "warning"
            /\ Len(checks) = Len(rows)
            /\ results.price_accuracy.valid
                  = Cardinality({i \in 1..Len(checks) : checks[i].valid})
            /\ results.price_accuracy.invalid
                  = Cardinality({i \in 1..Len(checks) : ~checks[i].valid})
            /\ (/\ ~SomeInvalidCheck(results)
                /\ Len(warnings) = Len(results.hallucinations))
                  => results.overall_valid

\* two rows at $60,000 for BTC-USD against a live price of $60,000: both
\* checks pass, both prices are out of band, and the verdict is valid
C27_Witness ==
    /\ ValidateReturned
    /\ Len(request.table.rows) = 2
    /\ results.price_accuracy.valid = 2
    /\ results.price_accuracy.invalid = 0
    /\ Len(RangeWarnings(results)) = 2
    /\ results.summary.hallucination_count = 2
    /\ results.overall_valid

\* C28: in every verdict the price-accuracy list has one check for each row
\* with a present entry price, in table order, and none for a row without;
\* valid + invalid is the number of checks; price_accuracy_rate is
\* valid / (valid + invalid), or 0 when no check was run; tools_called is the
\* number of records in the ledger; hallucination_count is the number of
\* findings and critical_issues the number of critical ones.
C28_SummaryCountsTheVerdict ==
    ValidateReturned =>
        LET rows == PricedRows(request.table)
            checks == results.price_accuracy.checks
            total == results.price_accuracy.valid + results.price_accuracy.invalid
            rate == results.summary.price_accuracy_rate
        IN  /\ Len(checks) = Len(rows)
            /\ \A i \in 1..Len(rows) :
                  /\ checks[i].symbol = rows[i].symbol
                  /\ checks[i].ai_price = rows[i].entry_price
            /\ total = Len(checks)
            /\ rate.den # 0
            /\ IF total = 0 THEN rate.num = 0
               ELSE rate.num * total = results.price_accuracy.valid * rate.den
            /\ results.summary.tools_called = Len(calls)
            /\ results.summary.hallucination_count = Len(results.hallucinations)
            /\ results.summary.critical_issues
                  = Cardinality({i \in 1..Len(results.hallucinations) :
                                    results.hallucinations[i].severity = "critical"})
            /\ results.summary.critical_issues
                  <= results.summary.hallucination_count

\* a table whose first row has no entry price and whose second row fails its
\* check, out of band, on a ledger of two records: one check, rate 0 of 1,
\* a range warning and a critical finding
C28_Witness ==
    /\ ValidateReturned
    /\ Len(request.table.rows) = 2
    /\ ~notna(request.table.rows[1].entry_price)
    /\ Len(results.price_accuracy.checks) = 1
    /\ results.price_accuracy.invalid = 1
    /\ results.summary.price_accuracy_rate = Ratio(0, 1)
    /\ results.summary.tools_called = 2
    /\ results.summary.hallucination_count = 2
    /\ results.summary.critical_issues = 1

\* C30: a get_tool_usage_report that ran while calls were being recorded
\* returns the report of one prefix of the ledger's records: its
\* total_calls, tools_used, data_sources and mean duration are all those of
\* the same records.
C30_ReportIsOfOnePrefix ==
    threads["report"].pc = "done" =>
        \E n \in 0..Len(calls) :
            LET of_prefix == get_tool_usage_report(SubSeq(calls, 1, n))
            IN  /\ ret.total_calls = of_prefix.total_calls
                /\ ret.tools_used = of_prefix.tools_used
                /\ ret.data_sources = of_prefix.data_sources
                /\ ret.avg_response_time.num * of_prefix.avg_response_time.den
                      = of_prefix.avg_response_time.num * ret.avg_response_time.den

====
